---- MODULE Spec2Model ----
(***************************************************************************)
(* Hour ledger and verification engine of the tutoring back end            *)
(* (gigs/models.py, gigs/views.py, gigs/serializers.py, gigs/admin.py).    *)
(*                                                                         *)
(* Hours are Decimal values with two places in the source; every amount    *)
(* here is an integer number of quarter hours (0.25 h, the smallest        *)
(* hours_logged the field validator accepts), so the arithmetic is exact   *)
(* as it is with Decimal.  Timestamps are abstracted to set / not set.     *)
(* Gig.clean also checks fees and dates; fees and planned dates are never  *)
(* written by the operations below, and actual_start_date and              *)
(* actual_end_date (0 = empty, 1 = a date) are stamped with today's date,  *)
(* the start never after the end, so that part of clean always passes and  *)
(* is not modelled.                                                        *)
(***************************************************************************)
EXTENDS Integers, FiniteSets, Sequences, TLC

\* ---- bounds of the model ----
MaxHours == 2
MaxTotal == 3
NumSessions == 2
MaxCycles == 2
MaxSlot == 4
NumOnline == 2
MaxExtend == 1
MaxTime == 2

\* ---- limits set by the program ----
MinHoursLogged == 1
MaxSessionHours == 96
MinTotalHours == 2
\* hours_to_subtract of an adjustment is counted in twentieths of an hour
\* (0.05 h), so that amounts below the serializer's minimum of 0.25 h
\* exist; a quarter hour, the unit of the hour fields, is MinAdjust of them
MinAdjust == 5
\* additional_minutes of an extension: 5 minutes at least, 120 at most, in
\* steps of 5; a slot of the schedule is half an hour, six steps
MinAdditional == 5
MaxAdditional == 120
AdditionalStep == 5
SlotMinutes == 6 * AdditionalStep

GigIds == {1, 2}
SessionIds == 1..NumSessions
Tutors == {1}
\* a second tutor, who takes part in the online sessions only
OtherTutor == 2
NoTutor == 0
NoUser == "nobody"
Users == {"admin", "tutor"}

\* hours_logged values a request may carry: below the minimum, accepted
\* values, and above the 24 hour limit
HoursInputs == {0} \cup (1..MaxHours) \cup {MaxSessionHours + 1}
TotalInputs == (MinTotalHours - 1)..MaxTotal
AdjustInputs == {0, 1} \cup {MinAdjust * k : k \in 1..MaxHours}
MaxDebt == MaxHours

VARIABLES gigs, sessions, run, conc, online

vars == <<gigs, sessions, run, conc, online>>

NoGig == [status |-> "none", tutor |-> NoTutor, total_hours |-> 0,
          total_hours_remaining |-> 0, actual_start_date |-> 0,
          actual_end_date |-> 0]

NoSession == [gig |-> 0, hours_logged |-> 0, is_verified |-> FALSE,
              verified_by |-> NoUser, verified_at |-> 0]

\* online sessions: times are whole slots of thirty minutes counted from
\* 10:00 (0 = 10:00, 2 = 11:00, 4 = 12:00); NoTime stands for an empty
\* extended_end and for a field a PUT does not carry
Slots == 0..MaxSlot
OnlineIds == 1..NumOnline
\* what the video provider or the mail server does with a request: TRUE it
\* answers, FALSE the call raises
ProviderOutcomes == BOOLEAN
\* the mail server in the runs that are not about it: it takes the message
MailDelivered == TRUE
NoTime == 0 - 1
OnlineStatuses == {"scheduled", "active", "completed", "cancelled"}
NoStatus == "absent"
\* the minutes an extend request asks for: none, a number that is no
\* multiple of 5, too many, and the whole slots up to MaxExtend
ExtendInputs ==
    {0, MinAdditional + 1, MaxAdditional + AdditionalStep}
    \cup {SlotMinutes * k : k \in 1..MaxExtend}

\* the instants timezone.now() returns while a participant joins; NoStamp
\* is an empty DateTimeField
Times == 1..MaxTime
NoStamp == 0
ParticipantTypes == {"tutor", "client"}
\* the video provider in the runs that are not about it: it gives a room
RoomProvided == TRUE

\* meeting_code: 0 is blank, another number is a code; pin_code: 0 is blank,
\* 1 is a PIN; digital_samba_room_id: 0 is empty, 1 is the provider's room
NoOnline == [gig |-> 0, tutor |-> NoTutor, status |-> "none",
             scheduled_start |-> 0, scheduled_end |-> 0,
             extended_end |-> NoTime, meeting_code |-> 0, pin_code |-> 0,
             digital_samba_room_id |-> 0,
             tutor_joined |-> FALSE, client_joined |-> FALSE,
             tutor_joined_at |-> NoStamp, client_joined_at |-> NoStamp,
             actual_start |-> NoStamp]

GigExists(gs, g) == gs[g].status # "none"
SessionExists(ss, s) == ss[s].gig # 0

\* ---- principals (users/models.py) ----
is_admin(u) == u = "admin"
\* every principal passes for staff
is_staff_anyone(u) == TRUE
is_staff(u) == u = "admin"
is_tutor(u) == u = "tutor"
is_manager(u) == u = "manager"
\* the Tutor record the principal's tutor_profile links to
tutor_profile(u) == IF u = "tutor" THEN 1 ELSE NoTutor

can_access_gig(u, gig) ==
    \/ is_admin(u) \/ is_staff(u)
    \/ (is_tutor(u) /\ gig.tutor # NoTutor /\ tutor_profile(u) = gig.tutor)

can_modify_gig(u, gig) ==
    \/ is_admin(u) \/ is_staff(u)
    \/ (is_tutor(u) /\ gig.tutor # NoTutor /\ tutor_profile(u) = gig.tutor)

\* ---- Gig ----
hours_completed(gig) ==
    IF gig.total_hours # 0 /\ gig.total_hours_remaining # 0
    THEN gig.total_hours - gig.total_hours_remaining
    ELSE 0

\* completion_percentage in hundredths of a percent: round(x, 2) of
\* completed / total_hours * 100; no quotient of the hour values that occur
\* lies on a rounding tie
completion_percentage(gig) ==
    IF gig.total_hours # 0 /\ gig.total_hours > 0
    THEN (2 * 10000 * hours_completed(gig) + gig.total_hours)
             \div (2 * gig.total_hours)
    ELSE 0

GigCleanSkipped(gig) == TRUE

\* Gig.clean: TRUE when the row may be written
GigClean(gig) == gig.total_hours_remaining <= gig.total_hours

\* Gig.save on the instance gig with primary key g: the result is the store
\* after the write and whether clean let it through
GigSave(gs, g, gig) ==
    IF GigClean(gig)
    THEN [gigs |-> [gs EXCEPT ![g] = gig], ok |-> TRUE]
    ELSE [gigs |-> gs, ok |-> FALSE]

\* ---- GigSession ----
LedgerDeltaKeepsOnUnverify(is_new, old, new) ==
    IF new.is_verified
    THEN IF is_new \/ ~old.is_verified
         THEN [adj |-> TRUE, d |-> new.hours_logged]
         ELSE [adj |-> old.hours_logged # new.hours_logged,
               d |-> new.hours_logged - old.hours_logged]
    ELSE [adj |-> FALSE, d |-> 0]

LedgerDeltaChargesUnverified(is_new, old, new) ==
    IF new.is_verified \/ old.is_verified
    THEN [adj |-> TRUE, d |-> new.hours_logged - old.hours_logged]
    ELSE [adj |-> new.hours_logged # old.hours_logged,
          d |-> new.hours_logged - old.hours_logged]

\* the adjustment GigSession.save applies to gig.total_hours_remaining
\* (subtracted), or "none" when save leaves the gig alone
LedgerDelta(is_new, old, new) ==
    IF new.is_verified
    THEN IF is_new THEN [adj |-> TRUE, d |-> new.hours_logged]
         ELSE IF old.is_verified
              THEN IF old.hours_logged # new.hours_logged
                   THEN [adj |-> TRUE, d |-> new.hours_logged - old.hours_logged]
                   ELSE [adj |-> FALSE, d |-> 0]
              ELSE [adj |-> TRUE, d |-> new.hours_logged]
    ELSE IF old.is_verified
         THEN [adj |-> TRUE, d |-> 0 - new.hours_logged]
         ELSE [adj |-> FALSE, d |-> 0]

\* GigSession.save of the instance new with primary key s, whose cached
\* related object self.gig is gobj: the session row is written first, then
\* the gig is adjusted and saved; ok is FALSE when Gig.save raised, and
\* then the session row is already stored
SessionSave(ss, gs, s, new, gobj) ==
    LET is_new == ~SessionExists(ss, s)
        old == ss[s]
        ss1 == [ss EXCEPT ![s] = new]
        ld == LedgerDelta(is_new, old, new)
        gig1 == [gobj EXCEPT !.total_hours_remaining = @ - ld.d]
        w == GigSave(gs, new.gig, gig1)
    IN IF ld.adj
       THEN [sessions |-> ss1, gigs |-> w.gigs, ok |-> w.ok]
       ELSE [sessions |-> ss1, gigs |-> gs, ok |-> TRUE]

\* GigSession.verify / GigSession.unverify: the instance after the field
\* assignments, before save
Verified(sess, u) ==
    [sess EXCEPT !.is_verified = TRUE, !.verified_by = u, !.verified_at = 1]
\* an unverify that clears the flag and the instant but keeps the verifier
Unverified_keeping_verifier(sess) ==
    [sess EXCEPT !.is_verified = FALSE, !.verified_at = 0]

Unverified(sess) ==
    [sess EXCEPT !.is_verified = FALSE, !.verified_by = NoUser, !.verified_at = 0]

\* GigSessionSerializer.validate and the hours_logged field validators
ValidHours(h) == h >= MinHoursLogged /\ h <= MaxSessionHours

\* ---- outcomes ----
\* Every view is an operator from the store and the request to an outcome:
\* the store after the request and the kind of answer.  "ok" is a 2xx
\* answer, "forbidden" the 403, "invalid", "insufficient", "conflict",
\* "already_verified" and "not_verified" the 400 answers, and "error" the
\* generic 500 answer of the view's except clause.
Outcome(gs, ss, code) == [gigs |-> gs, sessions |-> ss, code |-> code]

\* the result of a GigSession.save or Gig.save inside a view: "ok" or, when
\* Gig.save raised, the generic error with whatever was written before
Saved(r) == [gigs |-> r.gigs, sessions |-> r.sessions,
             code |-> IF r.ok THEN "ok" ELSE "error"]

FreeSessionIds(ss) == {s \in SessionIds : ~SessionExists(ss, s)}
\* the primary key the store gives the next session row
NextSessionId(ss) ==
    CHOOSE x \in FreeSessionIds(ss) : \A y \in FreeSessionIds(ss) : x <= y

\* ---- session views (gigs/views.py) ----
\* POST gigs/<gig_id>/sessions/
gig_sessions_list_create(gs, ss, u, g, h) ==
    LET gig == gs[g]
        new == [gig |-> g, hours_logged |-> h, is_verified |-> FALSE,
                verified_by |-> NoUser, verified_at |-> 0]
    IN IF ~can_access_gig(u, gig) \/ ~can_modify_gig(u, gig)
       THEN Outcome(gs, ss, "forbidden")
       ELSE IF ~ValidHours(h) \/ gig.status # "active"
               \/ h > gig.total_hours_remaining
       THEN Outcome(gs, ss, "invalid")
       ELSE Saved(SessionSave(ss, gs, NextSessionId(ss), new, gig))

\* PUT / PATCH gigs/<gig_id>/sessions/<session_id>/ : h and g2 are the
\* hours_logged and gig the request carries (a PATCH that omits one carries
\* the stored value)
gig_session_detail_put(gs, ss, u, g, s, h, g2) ==
    LET gig == gs[g]
        new == [ss[s] EXCEPT !.gig = g2, !.hours_logged = h]
    IN IF ~can_access_gig(u, gig) \/ ~can_modify_gig(u, gig)
       THEN Outcome(gs, ss, "forbidden")
       ELSE IF ~ValidHours(h)
       THEN Outcome(gs, ss, "invalid")
       ELSE Saved(SessionSave(ss, gs, s, new, gs[g2]))

\* DELETE gigs/<gig_id>/sessions/<session_id>/
gig_session_detail_delete(gs, ss, u, g, s) ==
    LET gig == gs[g]
        hours_to_restore == ss[s].hours_logged
        ss1 == [ss EXCEPT ![s] = NoSession]
        gig1 == [gig EXCEPT !.total_hours_remaining = @ + hours_to_restore]
        w == GigSave(gs, g, gig1)
    IN IF ~can_access_gig(u, gig) \/ ~(is_admin(u) \/ is_staff(u))
       THEN Outcome(gs, ss, "forbidden")
       ELSE Outcome(w.gigs, ss1, IF w.ok THEN "ok" ELSE "error")

\* SessionVerificationSerializer.validate
VerificationValid(sess, gig, verified) ==
    ~(verified /\ ~sess.is_verified
      /\ sess.hours_logged > gig.total_hours_remaining)

verify_session_any_state(gs, ss, u, g, s, verified) ==
    LET gig == gs[g]
        sess == ss[s]
    IN IF ~(is_admin(u) \/ is_staff(u))
       THEN Outcome(gs, ss, "forbidden")
       ELSE IF ~VerificationValid(sess, gig, verified)
       THEN Outcome(gs, ss, "insufficient")
       ELSE IF verified
       THEN Saved(SessionSave(ss, gs, s, Verified(sess, u), gig))
       ELSE Saved(SessionSave(ss, gs, s, Unverified(sess), gig))

\* POST gigs/<gig_id>/sessions/<session_id>/verify/
verify_session(gs, ss, u, g, s, verified) ==
    LET gig == gs[g]
        sess == ss[s]
    IN IF ~(is_admin(u) \/ is_staff(u))
       THEN Outcome(gs, ss, "forbidden")
       ELSE IF ~VerificationValid(sess, gig, verified)
       THEN Outcome(gs, ss, "insufficient")
       ELSE IF verified
       THEN IF sess.is_verified
            THEN Outcome(gs, ss, "already_verified")
            ELSE Saved(SessionSave(ss, gs, s, Verified(sess, u), gig))
       ELSE IF ~sess.is_verified
            THEN Outcome(gs, ss, "not_verified")
            ELSE Saved(SessionSave(ss, gs, s, Unverified(sess), gig))

\* send_session_verification_email: smtp_ok is what the mail server did,
\* TRUE it took the message, FALSE the send raised; the exception is caught
\* and reported in the result
send_session_verification_email(gig, smtp_ok) ==
    IF gig.tutor = NoTutor
    THEN [tutor_email_sent |-> FALSE, raised |-> FALSE]
    ELSE [tutor_email_sent |-> smtp_ok, raised |-> FALSE]

\* the verify view with its notifier: the message goes out after the
\* session is saved as verified, and an exception leaving the notifier
\* would end in the view's 500 with the writes kept
verify_session_notified(gs, ss, u, g, s, verified, smtp_ok) ==
    LET r == verify_session(gs, ss, u, g, s, verified)
    IN IF verified /\ r.code = "ok"
          /\ send_session_verification_email(r.gigs[g], smtp_ok).raised
       THEN Outcome(r.gigs, r.sessions, "error")
       ELSE r

\* ---- session admin (gigs/admin.py, staff only) ----
\* GigSessionAdmin.verify_session_view
verify_session_view(gs, ss, u, s) ==
    LET sess == ss[s]
    IN IF ~is_staff(u)
       THEN Outcome(gs, ss, "forbidden")
       ELSE IF sess.is_verified
       THEN Outcome(gs, ss, "already_verified")
       ELSE Saved(SessionSave(ss, gs, s, Verified(sess, u), gs[sess.gig]))

\* GigSessionAdmin.unverify_session_view
unverify_session_view(gs, ss, u, s) ==
    LET sess == ss[s]
    IN IF ~is_staff(u)
       THEN Outcome(gs, ss, "forbidden")
       ELSE IF ~sess.is_verified
       THEN Outcome(gs, ss, "not_verified")
       ELSE Saved(SessionSave(ss, gs, s, Unverified(sess), gs[sess.gig]))

\* the loop of a bulk action over the rows of its queryset, in the order
\* the queryset yields them: an exception of a save ends the loop and
\* leaves what was written
RECURSIVE VerifyLoop(_, _, _, _)
VerifyLoop(gs, ss, u, order) ==
    IF order = <<>> THEN Outcome(gs, ss, "ok")
    ELSE LET s == Head(order)
             r == SessionSave(ss, gs, s, Verified(ss[s], u), gs[ss[s].gig])
         IN IF ~r.ok THEN Saved(r)
            ELSE VerifyLoop(r.gigs, r.sessions, u, Tail(order))

RECURSIVE UnverifyLoop(_, _, _)
UnverifyLoop(gs, ss, order) ==
    IF order = <<>> THEN Outcome(gs, ss, "ok")
    ELSE LET s == Head(order)
             r == SessionSave(ss, gs, s, Unverified(ss[s]), gs[ss[s].gig])
         IN IF ~r.ok THEN Saved(r)
            ELSE UnverifyLoop(r.gigs, r.sessions, Tail(order))

\* the sequences that list every element of S once
Orders(S) ==
    {q \in [1..Cardinality(S) -> S] : \A i, j \in 1..Cardinality(S) :
                                          i # j => q[i] # q[j]}

\* GigSessionAdmin.verify_selected_sessions: order lists the selected rows
\* that are not verified
verify_selected_sessions(gs, ss, u, order) ==
    IF ~is_staff(u) THEN Outcome(gs, ss, "forbidden")
    ELSE VerifyLoop(gs, ss, u, order)

\* GigSessionAdmin.unverify_selected_sessions: order lists the selected rows
\* that are verified
unverify_selected_sessions(gs, ss, u, order) ==
    IF ~is_staff(u) THEN Outcome(gs, ss, "forbidden")
    ELSE UnverifyLoop(gs, ss, order)

\* GigAdmin.verify_all_sessions: order lists the unverified sessions of the
\* selected gigs
verify_all_sessions(gs, ss, u, order) ==
    IF ~is_staff(u) THEN Outcome(gs, ss, "forbidden")
    ELSE VerifyLoop(gs, ss, u, order)

\* ---- Gig model methods (gigs/models.py) ----
\* Each gives the instance the method saves; when the method's own status
\* guard does not hold the instance is returned as it was and nothing is
\* saved.
Gig_start_gig(gig) ==
    IF gig.status = "pending"
    THEN [gig EXCEPT !.status = "active", !.actual_start_date = 1]
    ELSE gig

\* complete_gig leaving the remaining hours as they are
Gig_complete_gig_keeps_hours(gig) ==
    IF gig.status \in {"active", "on_hold"}
    THEN [gig EXCEPT !.status = "completed", !.actual_end_date = 1]
    ELSE gig

Gig_complete_gig(gig) ==
    IF gig.status \in {"active", "on_hold"}
    THEN [gig EXCEPT !.status = "completed", !.actual_end_date = 1,
                     !.total_hours_remaining = 0]
    ELSE gig

Gig_cancel_gig(gig) == [gig EXCEPT !.status = "cancelled"]

Gig_put_on_hold(gig) ==
    IF gig.status = "active" THEN [gig EXCEPT !.status = "on_hold"] ELSE gig

Gig_resume_gig(gig) ==
    IF gig.status = "on_hold" THEN [gig EXCEPT !.status = "active"] ELSE gig

\* a view that has passed its checks and ends in Gig.save of gig1
GigWrite(gs, ss, g, gig1) ==
    LET w == GigSave(gs, g, gig1)
    IN Outcome(w.gigs, ss, IF w.ok THEN "ok" ELSE "error")

\* ---- gig views (gigs/views.py) ----
\* POST gigs/<gig_id>/assign/
assign_gig(gs, ss, u, g, t) ==
    IF ~(is_admin(u) \/ is_staff(u)) THEN Outcome(gs, ss, "forbidden")
    ELSE GigWrite(gs, ss, g, [gs[g] EXCEPT !.tutor = t])

\* unassign without the view's check of the status
unassign_gig_any_status(gs, ss, u, g) ==
    IF ~(is_admin(u) \/ is_staff(u)) THEN Outcome(gs, ss, "forbidden")
    ELSE IF gs[g].tutor = NoTutor
    THEN Outcome(gs, ss, "conflict")
    ELSE GigWrite(gs, ss, g, [gs[g] EXCEPT !.tutor = NoTutor])

\* POST gigs/<gig_id>/unassign/
unassign_gig(gs, ss, u, g) ==
    IF ~(is_admin(u) \/ is_staff(u)) THEN Outcome(gs, ss, "forbidden")
    ELSE IF gs[g].tutor = NoTutor \/ gs[g].status = "active"
    THEN Outcome(gs, ss, "conflict")
    ELSE GigWrite(gs, ss, g, [gs[g] EXCEPT !.tutor = NoTutor])

\* POST gigs/<gig_id>/start/
start_gig(gs, ss, u, g) ==
    IF ~(is_admin(u) \/ is_staff(u)) THEN Outcome(gs, ss, "forbidden")
    ELSE IF gs[g].status # "pending" \/ gs[g].tutor = NoTutor
    THEN Outcome(gs, ss, "conflict")
    ELSE GigWrite(gs, ss, g, Gig_start_gig(gs[g]))

\* POST gigs/<gig_id>/complete/
complete_gig(gs, ss, u, g) ==
    IF ~(is_admin(u) \/ is_staff(u)) THEN Outcome(gs, ss, "forbidden")
    ELSE IF gs[g].status \notin {"active", "on_hold"}
    THEN Outcome(gs, ss, "conflict")
    ELSE GigWrite(gs, ss, g, Gig_complete_gig(gs[g]))

\* cancel without the view's status check
cancel_gig_unchecked(gs, ss, u, g) ==
    IF ~(is_admin(u) \/ is_staff(u)) THEN Outcome(gs, ss, "forbidden")
    ELSE GigWrite(gs, ss, g, Gig_cancel_gig(gs[g]))

\* POST gigs/<gig_id>/cancel/
cancel_gig(gs, ss, u, g) ==
    IF ~(is_admin(u) \/ is_staff(u)) THEN Outcome(gs, ss, "forbidden")
    ELSE IF gs[g].status \in {"completed", "cancelled"}
    THEN Outcome(gs, ss, "conflict")
    ELSE GigWrite(gs, ss, g, Gig_cancel_gig(gs[g]))

\* POST gigs/<gig_id>/hold/
hold_gig(gs, ss, u, g) ==
    IF ~(is_admin(u) \/ is_staff(u)) THEN Outcome(gs, ss, "forbidden")
    ELSE IF gs[g].status # "active"
    THEN Outcome(gs, ss, "conflict")
    ELSE GigWrite(gs, ss, g, Gig_put_on_hold(gs[g]))

\* POST gigs/<gig_id>/resume/
resume_gig(gs, ss, u, g) ==
    IF ~(is_admin(u) \/ is_staff(u)) THEN Outcome(gs, ss, "forbidden")
    ELSE IF gs[g].status # "on_hold"
    THEN Outcome(gs, ss, "conflict")
    ELSE GigWrite(gs, ss, g, Gig_resume_gig(gs[g]))

\* POST gigs/<gig_id>/adjust-hours/ (GigHoursAdjustmentSerializer)
adjust_gig_hours(gs, ss, u, g, amount) ==
    IF ~(is_admin(u) \/ is_staff(u)) THEN Outcome(gs, ss, "forbidden")
    ELSE IF amount < MinAdjust
            \/ amount > MinAdjust * gs[g].total_hours_remaining
    THEN Outcome(gs, ss, "invalid")
    ELSE GigWrite(gs, ss, g,
                  [gs[g] EXCEPT !.total_hours_remaining =
                                    @ - amount \div MinAdjust])

\* PUT / PATCH gigs/<gig_id>/ carrying total_hours = nt
\* (gig_detail, GigUpdateSerializer.validate_total_hours)
gig_detail_put(gs, ss, u, g, nt) ==
    LET gig == gs[g]
        completed == hours_completed(gig)
        gig1 == IF nt # gig.total_hours
                THEN [gig EXCEPT !.total_hours = nt,
                                 !.total_hours_remaining = nt - completed]
                ELSE gig
    IN IF ~can_access_gig(u, gig) \/ ~can_modify_gig(u, gig)
          \/ (is_tutor(u) /\ ~(is_admin(u) \/ is_staff(u)))
       THEN Outcome(gs, ss, "forbidden")
       ELSE IF nt < MinTotalHours \/ nt < completed
       THEN Outcome(gs, ss, "invalid")
       ELSE GigWrite(gs, ss, g, gig1)

\* ---- gig admin bulk actions (gigs/admin.py, staff only) ----
\* the Gig model method a bulk action calls on each row
GigMethod(method, gig) ==
    CASE method = "start_gig" -> Gig_start_gig(gig)
      [] method = "complete_gig" -> Gig_complete_gig(gig)
      [] method = "put_on_hold" -> Gig_put_on_hold(gig)
      [] method = "resume_gig" -> Gig_resume_gig(gig)
      [] method = "cancel_gig" -> Gig_cancel_gig(gig)

\* The loop of a bulk action over the selected gigs G, newest first (the
\* Meta ordering is -created_at): the model method is applied to the rows
\* whose status is in From; an exception of a save ends the loop.
RECURSIVE GigLoop(_, _, _, _, _)
GigLoop(gs, ss, G, From, method) ==
    IF G = {} THEN Outcome(gs, ss, "ok")
    ELSE LET g == CHOOSE x \in G : \A y \in G : x >= y
             w == GigSave(gs, g, GigMethod(method, gs[g]))
         IN IF gs[g].status \notin From
            THEN GigLoop(gs, ss, G \ {g}, From, method)
            ELSE IF ~w.ok THEN Outcome(gs, ss, "error")
            ELSE GigLoop(w.gigs, ss, G \ {g}, From, method)

AllStatuses == {"pending", "active", "on_hold", "completed", "cancelled"}

start_selected_gigs(gs, ss, u, G) ==
    IF ~is_staff(u) THEN Outcome(gs, ss, "forbidden")
    ELSE GigLoop(gs, ss, G, {"pending"}, "start_gig")

complete_selected_gigs(gs, ss, u, G) ==
    IF ~is_staff(u) THEN Outcome(gs, ss, "forbidden")
    ELSE GigLoop(gs, ss, G, {"active"}, "complete_gig")

put_on_hold(gs, ss, u, G) ==
    IF ~is_staff(u) THEN Outcome(gs, ss, "forbidden")
    ELSE GigLoop(gs, ss, G, {"active"}, "put_on_hold")

resume_from_hold(gs, ss, u, G) ==
    IF ~is_staff(u) THEN Outcome(gs, ss, "forbidden")
    ELSE GigLoop(gs, ss, G, {"on_hold"}, "resume_gig")

cancel_selected_gigs(gs, ss, u, G) ==
    IF ~is_staff(u) THEN Outcome(gs, ss, "forbidden")
    ELSE GigLoop(gs, ss, G, AllStatuses \ {"completed", "cancelled"},
                 "cancel_gig")

\* ---- the verify / unverify run in progress ----
\* run records what the round trip property needs: the session of the last
\* request if it was a successful verify or an unverify that followed one,
\* pre, the gig's total_hours_remaining before the first verify of the run,
\* and n, the number of unverify requests of the run.  A request that is
\* refused for lack of permission leaves the run as it is; every other
\* request ends it.  Only SpecRoundTrip keeps the record; the other
\* specifications start with RunOff and never write it.
NoRun == [sid |-> 0, pre |-> 0, n |-> 0, phase |-> "idle"]
RunOff == [sid |-> 0, pre |-> 0, n |-> 0, phase |-> "off"]

EndRun == IF run.phase = "off" THEN RunOff ELSE NoRun

RunAfterVerify(s, code, rem) ==
    IF run.phase = "off" THEN RunOff
    ELSE IF code = "forbidden" THEN run
    ELSE IF code # "ok" THEN NoRun
    ELSE IF run.phase = "restored" /\ run.sid = s /\ run.n < MaxCycles
    THEN [run EXCEPT !.phase = "verified"]
    ELSE [sid |-> s, pre |-> rem, n |-> 0, phase |-> "verified"]

RunAfterUnverify(s, code) ==
    IF run.phase = "off" THEN RunOff
    ELSE IF code = "forbidden" THEN run
    ELSE IF run.phase = "verified" /\ run.sid = s
    THEN [run EXCEPT !.n = @ + 1,
                     !.phase = IF code = "ok" THEN "restored" ELSE "failed"]
    ELSE NoRun

\* ---- requests in flight ----
\* conc holds the requests that run step by step: session requests (p) in
\* SpecConcurrent, joins (join) in SpecJoinRace, schedule requests (create)
\* in SpecScheduleRace; in the specifications that run one request at a
\* time it stays ConcOff.
Procs == {1, 2}

\* a request that has not started
NewRequest == [pc |-> "new", kind |-> "none", sid |-> 0, h |-> 0,
               session |-> NoSession, old |-> NoSession, gig |-> NoGig,
               code |-> "none"]

\* a join request that has not started: session is the row its serializer
\* loaded
NewJoin == [pc |-> "new", sid |-> 0, participant_type |-> "none",
            session |-> NoOnline, code |-> "none"]

\* a schedule request that has not started: row is the session its
\* serializer accepted
NewCreate == [pc |-> "new", row |-> NoOnline, code |-> "none"]

ConcOff == [on |-> FALSE]

\* ---- the system: one request at a time ----
\* A request names rows that exist; a request for a missing row changes
\* nothing and is not modelled.  Moving verified sessions between gigs can
\* lower total_hours_remaining without limit; a request that would take a
\* gig below -MaxDebt is left out to keep the state space finite.
Apply(r) ==
    /\ \A g \in GigIds : r.gigs[g].total_hours_remaining >= 0 - MaxDebt
    /\ gigs' = r.gigs
    /\ sessions' = r.sessions
    /\ conc' = conc
    /\ online' = online

OwnSession(g, s) ==
    GigExists(gigs, g) /\ SessionExists(sessions, s) /\ sessions[s].gig = g

ExistingGigs == {g \in GigIds : GigExists(gigs, g)}
UnverifiedSessions == {s \in SessionIds : SessionExists(sessions, s)
                                          /\ ~sessions[s].is_verified}
VerifiedSessions == {s \in SessionIds : SessionExists(sessions, s)
                                        /\ sessions[s].is_verified}

Init ==
    /\ \E t \in Tutors \cup {NoTutor} :
         gigs = [g \in GigIds |->
                   IF g = 1
                   THEN [status |-> "pending", tutor |-> t,
                         total_hours |-> MaxTotal,
                         total_hours_remaining |-> MaxTotal,
                         actual_start_date |-> 0, actual_end_date |-> 0]
                   ELSE NoGig]
    /\ sessions = [s \in SessionIds |-> NoSession]
    /\ run = RunOff
    /\ conc = ConcOff
    /\ online = [i \in OnlineIds |-> NoOnline]

CreateSession(u, g, h) ==
    /\ GigExists(gigs, g)
    /\ FreeSessionIds(sessions) # {}
    /\ Apply(gig_sessions_list_create(gigs, sessions, u, g, h))
    /\ run' = EndRun

EditSession(u, g, s, h, g2) ==
    /\ OwnSession(g, s) /\ GigExists(gigs, g2)
    /\ Apply(gig_session_detail_put(gigs, sessions, u, g, s, h, g2))
    /\ run' = EndRun

DeleteSession(u, g, s) ==
    /\ OwnSession(g, s)
    /\ Apply(gig_session_detail_delete(gigs, sessions, u, g, s))
    /\ run' = EndRun

VerifySession(u, g, s, smtp_ok) ==
    /\ OwnSession(g, s)
    /\ LET r == verify_session_notified(gigs, sessions, u, g, s, TRUE,
                                        smtp_ok)
       IN /\ Apply(r)
          /\ run' = RunAfterVerify(s, r.code, gigs[g].total_hours_remaining)

UnverifySession(u, g, s) ==
    /\ OwnSession(g, s)
    /\ LET r == verify_session(gigs, sessions, u, g, s, FALSE)
       IN /\ Apply(r)
          /\ run' = RunAfterUnverify(s, r.code)

AdminVerifySessionView(u, s) ==
    /\ SessionExists(sessions, s)
    /\ LET r == verify_session_view(gigs, sessions, u, s)
       IN /\ Apply(r)
          /\ run' = RunAfterVerify(s, r.code,
                        gigs[sessions[s].gig].total_hours_remaining)

AdminUnverifySessionView(u, s) ==
    /\ SessionExists(sessions, s)
    /\ LET r == unverify_session_view(gigs, sessions, u, s)
       IN /\ Apply(r)
          /\ run' = RunAfterUnverify(s, r.code)

AdminVerifySelected(u, Q) ==
    /\ Q # {} /\ Q \subseteq SessionIds
    /\ \A s \in Q : SessionExists(sessions, s)
    /\ \E order \in Orders(Q \cap UnverifiedSessions) :
         Apply(verify_selected_sessions(gigs, sessions, u, order))
    /\ run' = EndRun

AdminUnverifySelected(u, Q) ==
    /\ Q # {} /\ Q \subseteq SessionIds
    /\ \A s \in Q : SessionExists(sessions, s)
    /\ \E order \in Orders(Q \cap VerifiedSessions) :
         Apply(unverify_selected_sessions(gigs, sessions, u, order))
    /\ run' = EndRun

AdminVerifyAllSessions(u, G) ==
    /\ G # {} /\ G \subseteq ExistingGigs
    /\ \E order \in Orders({s \in UnverifiedSessions : sessions[s].gig \in G}) :
         Apply(verify_all_sessions(gigs, sessions, u, order))
    /\ run' = EndRun

AssignGig(u, g, t) ==
    /\ GigExists(gigs, g)
    /\ Apply(assign_gig(gigs, sessions, u, g, t))
    /\ run' = EndRun

UnassignGig(u, g) ==
    /\ GigExists(gigs, g)
    /\ Apply(unassign_gig(gigs, sessions, u, g))
    /\ run' = EndRun

StartGig(u, g) ==
    /\ GigExists(gigs, g)
    /\ Apply(start_gig(gigs, sessions, u, g))
    /\ run' = EndRun

CompleteGig(u, g) ==
    /\ GigExists(gigs, g)
    /\ Apply(complete_gig(gigs, sessions, u, g))
    /\ run' = EndRun

CancelGig(u, g) ==
    /\ GigExists(gigs, g)
    /\ Apply(cancel_gig(gigs, sessions, u, g))
    /\ run' = EndRun

HoldGig(u, g) ==
    /\ GigExists(gigs, g)
    /\ Apply(hold_gig(gigs, sessions, u, g))
    /\ run' = EndRun

ResumeGig(u, g) ==
    /\ GigExists(gigs, g)
    /\ Apply(resume_gig(gigs, sessions, u, g))
    /\ run' = EndRun

AdjustHours(u, g, amount) ==
    /\ GigExists(gigs, g)
    /\ Apply(adjust_gig_hours(gigs, sessions, u, g, amount))
    /\ run' = EndRun

UpdateGig(u, g, nt) ==
    /\ GigExists(gigs, g)
    /\ Apply(gig_detail_put(gigs, sessions, u, g, nt))
    /\ run' = EndRun

AdminStartSelected(u, G) ==
    /\ G # {} /\ G \subseteq ExistingGigs
    /\ Apply(start_selected_gigs(gigs, sessions, u, G))
    /\ run' = EndRun

AdminCompleteSelected(u, G) ==
    /\ G # {} /\ G \subseteq ExistingGigs
    /\ Apply(complete_selected_gigs(gigs, sessions, u, G))
    /\ run' = EndRun

AdminPutOnHold(u, G) ==
    /\ G # {} /\ G \subseteq ExistingGigs
    /\ Apply(put_on_hold(gigs, sessions, u, G))
    /\ run' = EndRun

AdminResumeFromHold(u, G) ==
    /\ G # {} /\ G \subseteq ExistingGigs
    /\ Apply(resume_from_hold(gigs, sessions, u, G))
    /\ run' = EndRun

AdminCancelSelected(u, G) ==
    /\ G # {} /\ G \subseteq ExistingGigs
    /\ Apply(cancel_selected_gigs(gigs, sessions, u, G))
    /\ run' = EndRun

SessionRequest ==
    \/ \E u \in Users, g \in GigIds, h \in HoursInputs : CreateSession(u, g, h)
    \/ \E u \in Users, g \in GigIds, s \in SessionIds, h \in HoursInputs,
          g2 \in GigIds : EditSession(u, g, s, h, g2)
    \/ \E u \in Users, g \in GigIds, s \in SessionIds : DeleteSession(u, g, s)
    \/ \E u \in Users, g \in GigIds, s \in SessionIds :
         VerifySession(u, g, s, MailDelivered)
    \/ \E u \in Users, g \in GigIds, s \in SessionIds : UnverifySession(u, g, s)
    \/ \E u \in Users, s \in SessionIds : AdminVerifySessionView(u, s)
    \/ \E u \in Users, s \in SessionIds : AdminUnverifySessionView(u, s)
    \/ \E u \in Users, Q \in SUBSET SessionIds : AdminVerifySelected(u, Q)
    \/ \E u \in Users, Q \in SUBSET SessionIds : AdminUnverifySelected(u, Q)
    \/ \E u \in Users, G \in SUBSET GigIds : AdminVerifyAllSessions(u, G)

GigRequest ==
    \/ \E u \in Users, g \in GigIds, t \in Tutors : AssignGig(u, g, t)
    \/ \E u \in Users, g \in GigIds : UnassignGig(u, g)
    \/ \E u \in Users, g \in GigIds : StartGig(u, g)
    \/ \E u \in Users, g \in GigIds : CompleteGig(u, g)
    \/ \E u \in Users, g \in GigIds : CancelGig(u, g)
    \/ \E u \in Users, g \in GigIds : HoldGig(u, g)
    \/ \E u \in Users, g \in GigIds : ResumeGig(u, g)
    \/ \E u \in Users, g \in GigIds, a \in AdjustInputs : AdjustHours(u, g, a)
    \/ \E u \in Users, g \in GigIds, nt \in TotalInputs : UpdateGig(u, g, nt)
    \/ \E u \in Users, G \in SUBSET GigIds : AdminStartSelected(u, G)
    \/ \E u \in Users, G \in SUBSET GigIds : AdminCompleteSelected(u, G)
    \/ \E u \in Users, G \in SUBSET GigIds : AdminPutOnHold(u, G)
    \/ \E u \in Users, G \in SUBSET GigIds : AdminResumeFromHold(u, G)
    \/ \E u \in Users, G \in SUBSET GigIds : AdminCancelSelected(u, G)

Next == SessionRequest \/ GigRequest

Spec == Init /\ [][Next]_vars

\* ---- session requests on active gigs ----
\* Two gigs that have been created, assigned and started, and the session
\* requests only: no lifecycle operation, manual adjustment or resize.
InitSessions ==
    /\ gigs = [g \in GigIds |->
                 [status |-> "active", tutor |-> IF g = 1 THEN 1 ELSE NoTutor,
                  total_hours |-> MaxTotal,
                  total_hours_remaining |-> MaxTotal,
                  actual_start_date |-> 1, actual_end_date |-> 0]]
    /\ sessions = [s \in SessionIds |-> NoSession]
    /\ run = RunOff
    /\ conc = ConcOff
    /\ online = [i \in OnlineIds |-> NoOnline]

SpecSessions == InitSessions /\ [][SessionRequest]_vars

\* ---- session requests on one active gig ----
\* One gig that has been created, assigned and started, and the session
\* requests only.
InitLedger ==
    /\ \E total \in MinTotalHours..MaxTotal :
         gigs = [g \in GigIds |->
                   IF g = 1
                   THEN [status |-> "active", tutor |-> 1,
                         total_hours |-> total,
                         total_hours_remaining |-> total,
                         actual_start_date |-> 1, actual_end_date |-> 0]
                   ELSE NoGig]
    /\ sessions = [s \in SessionIds |-> NoSession]
    /\ run = RunOff
    /\ conc = ConcOff
    /\ online = [i \in OnlineIds |-> NoOnline]

SpecLedger == InitLedger /\ [][SessionRequest]_vars

\* ---- the verify / unverify run recorded ----
\* One active gig, some of whose hours may have been taken off by manual
\* adjustments, and the session requests, with run kept.
InitRoundTrip ==
    /\ \E total \in MinTotalHours..MaxTotal, rem \in 0..MaxTotal :
         /\ rem <= total
         /\ gigs = [g \in GigIds |->
                      IF g = 1
                      THEN [status |-> "active", tutor |-> 1,
                            total_hours |-> total,
                            total_hours_remaining |-> rem,
                            actual_start_date |-> 1, actual_end_date |-> 0]
                      ELSE NoGig]
    /\ sessions = [s \in SessionIds |-> NoSession]
    /\ run = NoRun
    /\ conc = ConcOff
    /\ online = [i \in OnlineIds |-> NoOnline]

SpecRoundTrip == InitRoundTrip /\ [][SessionRequest]_vars

\* ---- the hours the sessions account for ----
RECURSIVE SumHours(_, _)
SumHours(ss, S) ==
    IF S = {} THEN 0
    ELSE LET s == CHOOSE x \in S : TRUE
         IN ss[s].hours_logged + SumHours(ss, S \ {s})

\* the sum of hours_logged over the verified sessions of gig g
VerifiedHours(ss, g) ==
    SumHours(ss, {s \in SessionIds : ss[s].gig = g /\ ss[s].is_verified})

\* ---- two requests in flight ----
\* Two requests of an administrator on sessions of gig 1 run at the same
\* time.  Neither the views nor GigSession.save take a lock or open a
\* transaction, so every query of a request is a step of its own and the
\* steps of the two requests interleave freely.  Each request keeps its own
\* in-memory instances: session, the GigSession it loaded; old, the row
\* GigSession.save reads back; gig, the cached related object session.gig
\* (status "none" while it is not loaded).
Kinds == {"verify", "unverify", "put", "patch"}
ConcUser == "admin"

\* the cached related object has been fetched
Loaded(gig) == gig.status # "none"

RequestDone(pr, code) == [pr EXCEPT !.pc = "done", !.code = code]

\* the view has loaded the gig and the session named by the URL
Begin(p, kind, s, h) ==
    /\ conc.on /\ conc.p[p].pc = "new"
    /\ kind \in {"verify", "unverify"} => h = 0
    /\ conc' = [conc EXCEPT !.p[p] = [@ EXCEPT !.pc = "loaded",
                                                 !.kind = kind, !.sid = s,
                                                 !.h = h,
                                                 !.session = sessions[s]]]
    /\ UNCHANGED <<gigs, sessions, run, online>>

\* serializer validation and the check of verify() / unverify() on the
\* loaded instance; validation of a verify request reads session.gig, and a
\* PUT carries the gig field, which loads the gig as well
Validate(p) ==
    LET pr == conc.p[p]
        stored == gigs[pr.session.gig]
        after ==
            CASE pr.kind = "verify" ->
                   IF pr.session.is_verified
                   THEN RequestDone(pr, "already_verified")
                   ELSE IF ~VerificationValid(pr.session, stored, TRUE)
                   THEN RequestDone(pr, "insufficient")
                   ELSE [pr EXCEPT !.pc = "saving", !.gig = stored,
                                   !.session = Verified(@, ConcUser)]
              [] pr.kind = "unverify" ->
                   IF ~pr.session.is_verified
                   THEN RequestDone(pr, "not_verified")
                   ELSE [pr EXCEPT !.pc = "saving",
                                   !.session = Unverified(@)]
              [] pr.kind = "put" ->
                   IF ~ValidHours(pr.h) THEN RequestDone(pr, "invalid")
                   ELSE [pr EXCEPT !.pc = "saving", !.gig = stored,
                                   !.session.hours_logged = pr.h]
              [] pr.kind = "patch" ->
                   IF ~ValidHours(pr.h) THEN RequestDone(pr, "invalid")
                   ELSE [pr EXCEPT !.pc = "saving",
                                   !.session.hours_logged = pr.h]
    IN /\ conc.on /\ pr.pc = "loaded"
       /\ conc' = [conc EXCEPT !.p[p] = after]
       /\ UNCHANGED <<gigs, sessions, run, online>>

\* GigSession.save: old_session = GigSession.objects.get(pk=self.pk)
ReadOld(p) ==
    LET pr == conc.p[p]
    IN /\ conc.on /\ pr.pc = "saving"
       /\ conc' = [conc EXCEPT !.p[p] = [pr EXCEPT !.pc = "old_read",
                                                    !.old = sessions[pr.sid]]]
       /\ UNCHANGED <<gigs, sessions, run, online>>

\* GigSession.save: super().save() writes the whole session row
WriteSession(p) ==
    LET pr == conc.p[p]
        ld == LedgerDelta(FALSE, pr.old, pr.session)
    IN /\ conc.on /\ pr.pc = "old_read"
       /\ sessions' = [sessions EXCEPT ![pr.sid] = pr.session]
       /\ conc' = [conc EXCEPT !.p[p] =
                      IF ld.adj THEN [pr EXCEPT !.pc = "session_written"]
                      ELSE RequestDone(pr, "ok")]
       /\ UNCHANGED <<gigs, run, online>>

\* GigSession.save: the first use of self.gig loads the related gig
LoadGig(p) ==
    LET pr == conc.p[p]
    IN /\ conc.on /\ pr.pc = "session_written" /\ ~Loaded(pr.gig)
       /\ conc' = [conc EXCEPT !.p[p] = [pr EXCEPT !.gig =
                                                    gigs[pr.session.gig]]]
       /\ UNCHANGED <<gigs, sessions, run, online>>

\* GigSession.save: self.gig.total_hours_remaining is adjusted on the
\* instance and self.gig.save() writes the whole gig row
WriteGig(p) ==
    LET pr == conc.p[p]
        ld == LedgerDelta(FALSE, pr.old, pr.session)
        gig1 == [pr.gig EXCEPT !.total_hours_remaining = @ - ld.d]
        w == GigSave(gigs, pr.session.gig, gig1)
    IN /\ conc.on /\ pr.pc = "session_written" /\ Loaded(pr.gig)
       /\ gigs' = w.gigs
       /\ conc' = [conc EXCEPT !.p[p] =
                      RequestDone([pr EXCEPT !.gig = gig1],
                                  IF w.ok THEN "ok" ELSE "error")]
       /\ UNCHANGED <<sessions, run, online>>

ConcurrentStep ==
    \/ \E p \in Procs, kind \in Kinds, s \in SessionIds, h \in HoursInputs :
         Begin(p, kind, s, h)
    \/ \E p \in Procs : Validate(p)
    \/ \E p \in Procs : ReadOld(p)
    \/ \E p \in Procs : WriteSession(p)
    \/ \E p \in Procs : LoadGig(p)
    \/ \E p \in Procs : WriteGig(p)

\* One active gig with its sessions created and some of them verified
\* through the endpoint, and two requests about to start.
InitConcurrent ==
    \E hs \in [SessionIds -> 1..MaxHours], vs \in [SessionIds -> BOOLEAN] :
        LET ss == [s \in SessionIds |->
                     [gig |-> 1, hours_logged |-> hs[s],
                      is_verified |-> vs[s],
                      verified_by |-> IF vs[s] THEN ConcUser ELSE NoUser,
                      verified_at |-> IF vs[s] THEN 1 ELSE 0]]
            gs == [g \in GigIds |->
                     IF g = 1
                     THEN [status |-> "active", tutor |-> 1,
                           total_hours |-> MaxTotal,
                           total_hours_remaining |->
                               MaxTotal - VerifiedHours(ss, 1),
                           actual_start_date |-> 1, actual_end_date |-> 0]
                     ELSE NoGig]
        IN /\ VerifiedHours(ss, 1) <= MaxTotal
           /\ gigs = gs
           /\ sessions = ss
           /\ run = RunOff
           /\ conc = [on |-> TRUE, start |-> [gigs |-> gs, sessions |-> ss],
                      p |-> [p \in Procs |-> NewRequest]]
           /\ online = [i \in OnlineIds |-> NoOnline]

SpecConcurrent == InitConcurrent /\ [][ConcurrentStep]_vars

\* the request pr run alone on the store (gs, ss)
Alone(gs, ss, pr) ==
    CASE pr.kind = "verify" ->
           verify_session(gs, ss, ConcUser, 1, pr.sid, TRUE)
      [] pr.kind = "unverify" ->
           verify_session(gs, ss, ConcUser, 1, pr.sid, FALSE)
      [] pr.kind \in {"put", "patch"} ->
           gig_session_detail_put(gs, ss, ConcUser, 1, pr.sid, pr.h,
                                  1)

\* first then second, one after the other, from the store the two started on
Serial(first, second) ==
    LET r == Alone(conc.start.gigs, conc.start.sessions, first)
    IN Alone(r.gigs, r.sessions, second)

AllDone == conc.on /\ \A p \in Procs : conc.p[p].pc = "done"

\* ---- online sessions (gigs/models.py OnlineSession, gigs/serializers.py,
\* gigs/views.py online_session_*) ----
\* The meeting code of a session is unique, so
\* a join request names the session by its id and says whether its PIN
\* matches.  The actual end stamp and the notes of a session are not part
\* of the store modelled here.
OnlineExists(os, i) == os[i].status # "none"

OnlineOutcome(os, code) == [online |-> os, code |-> code]

\* the principals the online session endpoints of the back office accept
may_manage_online(u) == is_admin(u) \/ is_staff(u) \/ is_manager(u)

\* the conflict query with closed windows: a session that ends when the
\* new one starts is in the way as well
conflicting_sessions_closed(os, tutor, start, end) ==
    {i \in OnlineIds : /\ OnlineExists(os, i)
                       /\ os[i].tutor = tutor
                       /\ os[i].status \in {"scheduled", "active"}
                       /\ os[i].scheduled_start <= end
                       /\ os[i].scheduled_end >= start}

\* OnlineSessionCreateSerializer.validate: the scheduled or active sessions
\* of the tutor that the window [start, end) runs into
conflicting_sessions(os, tutor, start, end) ==
    {i \in OnlineIds : /\ OnlineExists(os, i)
                       /\ os[i].tutor = tutor
                       /\ os[i].status \in {"scheduled", "active"}
                       /\ os[i].scheduled_start < end
                       /\ os[i].scheduled_end > start}

FreeOnlineIds(os) == {i \in OnlineIds : ~OnlineExists(os, i)}
NextOnlineId(os) == CHOOSE i \in FreeOnlineIds(os) :
                        \A j \in FreeOnlineIds(os) : i <= j

\* OnlineSessionCreateSerializer.validate: "ok" or the reason of the
\* ValidationError
OnlineSessionCreate_validate(os, gs, g, start, end) ==
    IF start >= end THEN "end_not_after_start"
    ELSE IF gs[g].tutor = NoTutor THEN "no_tutor"
    ELSE IF conflicting_sessions(os, gs[g].tutor, start, end) # {}
    THEN "tutor_busy"
    ELSE "ok"

\* OnlineSession.generate_meeting_code: draws codes until one is carried by
\* no stored session; the codes are numbered and the first unused one stands
\* for the draw
MeetingCodes == 1..(NumOnline + 1)
generate_meeting_code(os) ==
    CHOOSE c \in MeetingCodes :
        /\ \A i \in OnlineIds : ~(OnlineExists(os, i) /\ os[i].meeting_code = c)
        /\ \A d \in MeetingCodes :
               (\A i \in OnlineIds :
                    ~(OnlineExists(os, i) /\ os[i].meeting_code = d))
               => c <= d

\* create_digital_samba_room letting the provider's failure out
create_digital_samba_room_raising(os, i, api_ok) ==
    IF api_ok
    THEN [online |-> [os EXCEPT ![i].digital_samba_room_id = 1],
          raised |-> FALSE]
    ELSE [online |-> os, raised |-> TRUE]

\* OnlineSession.create_digital_samba_room: api_ok is what the provider
\* did with the request, TRUE a room, FALSE an exception; the exception is
\* caught and printed
create_digital_samba_room(os, i, api_ok) ==
    IF api_ok
    THEN [online |-> [os EXCEPT ![i].digital_samba_room_id = 1],
          raised |-> FALSE]
    ELSE [online |-> os, raised |-> FALSE]

\* the insert on a table without the unique index on meeting_code
OnlineSession_insert_unconstrained(os, i, row) ==
    [online |-> [os EXCEPT ![i] = row], raised |-> FALSE]

\* super().save() of a new row: meeting_code is unique=True, so the
\* database refuses a row whose code a stored row carries (IntegrityError)
OnlineSession_insert(os, i, row) ==
    IF \E j \in OnlineIds :
           OnlineExists(os, j) /\ os[j].meeting_code = row.meeting_code
    THEN [online |-> os, raised |-> TRUE]
    ELSE [online |-> [os EXCEPT ![i] = row], raised |-> FALSE]

\* OnlineSession.save of a new row: blank codes are generated, the row is
\* written, then the room is asked for
OnlineSession_save(os, i, o, api_ok) ==
    LET row == [o EXCEPT !.meeting_code =
                             IF @ = 0 THEN generate_meeting_code(os) ELSE @,
                         !.pin_code = IF @ = 0 THEN 1 ELSE @]
    IN create_digital_samba_room([os EXCEPT ![i] = row], i, api_ok)

\* POST online-sessions/ (online_sessions_list); every refusal of the
\* serializer is a 400
online_sessions_list_post(os, gs, u, g, start, end, api_ok) ==
    IF ~may_manage_online(u) THEN OnlineOutcome(os, "forbidden")
    ELSE IF OnlineSessionCreate_validate(os, gs, g, start, end) # "ok"
    THEN OnlineOutcome(os, OnlineSessionCreate_validate(os, gs, g, start,
                                                        end))
    ELSE LET saved == OnlineSession_save(
                          os, NextOnlineId(os),
                          [gig |-> g, tutor |-> gs[g].tutor,
                           status |-> "scheduled",
                           scheduled_start |-> start, scheduled_end |-> end,
                           extended_end |-> NoTime, meeting_code |-> 0,
                           pin_code |-> 0, digital_samba_room_id |-> 0,
                           tutor_joined |-> FALSE, client_joined |-> FALSE,
                           tutor_joined_at |-> NoStamp,
                           client_joined_at |-> NoStamp,
                           actual_start |-> NoStamp],
                          api_ok)
         IN IF saved.raised THEN OnlineOutcome(saved.online, "error")
            ELSE OnlineOutcome(saved.online, "ok")

\* PUT online-sessions/<id>/ (online_session_detail,
\* OnlineSessionUpdateSerializer with partial=True): the fields the request
\* carries are written as they are once start < end holds
online_session_detail_put(os, u, i, start, end, st) ==
    LET inst == os[i]
        scheduled_start == IF start = NoTime THEN inst.scheduled_start
                           ELSE start
        scheduled_end == IF end = NoTime THEN inst.scheduled_end ELSE end
    IN IF ~may_manage_online(u) THEN OnlineOutcome(os, "forbidden")
       ELSE IF ~OnlineExists(os, i) THEN OnlineOutcome(os, "not_found")
       ELSE IF scheduled_start >= scheduled_end
       THEN OnlineOutcome(os, "end_not_after_start")
       ELSE OnlineOutcome(
                [os EXCEPT ![i] =
                    [inst EXCEPT !.scheduled_start = scheduled_start,
                                 !.scheduled_end = scheduled_end,
                                 !.status = IF st = NoStatus THEN @ ELSE st]],
                "ok")

\* OnlineSession.cancel_session
cancel_session(o) ==
    IF o.status \notin {"completed", "cancelled"}
    THEN [o EXCEPT !.status = "cancelled"] ELSE o

\* OnlineSession.complete_session
complete_session(o) ==
    IF o.status # "completed" THEN [o EXCEPT !.status = "completed"] ELSE o

\* mark_joined stamping the participant at every join
mark_joined_restamping(o, participant_type, now) ==
    LET joined == IF participant_type = "tutor"
                  THEN [o EXCEPT !.tutor_joined = TRUE,
                                 !.tutor_joined_at = now]
                  ELSE [o EXCEPT !.client_joined = TRUE,
                                 !.client_joined_at = now]
    IN IF joined.status = "scheduled"
       THEN [joined EXCEPT !.status = "active",
                           !.actual_start = IF @ = NoStamp THEN now ELSE @]
       ELSE joined

\* OnlineSession.mark_joined; now is timezone.now()
mark_joined(o, participant_type, now) ==
    LET joined == IF participant_type = "tutor"
                  THEN [o EXCEPT !.tutor_joined = TRUE,
                                 !.tutor_joined_at =
                                     IF @ = NoStamp THEN now ELSE @]
                  ELSE [o EXCEPT !.client_joined = TRUE,
                                 !.client_joined_at =
                                     IF @ = NoStamp THEN now ELSE @]
    IN IF joined.status = "scheduled"
       THEN [joined EXCEPT !.status = "active",
                           !.actual_start = IF @ = NoStamp THEN now ELSE @]
       ELSE joined

\* extend_session counting from scheduled_end every time
extend_session_from_scheduled_end(o, additional) ==
    [o EXCEPT !.extended_end = o.scheduled_end + additional \div SlotMinutes]

\* OnlineSession.extend_session; the minutes are whole slots
extend_session(o, additional) ==
    [o EXCEPT !.extended_end =
                  IF @ # NoTime THEN @ + additional \div SlotMinutes
                  ELSE o.scheduled_end + additional \div SlotMinutes]

\* DELETE online-sessions/<id>/ cancels the session and answers 200
online_session_detail_delete(os, u, i) ==
    IF ~may_manage_online(u) THEN OnlineOutcome(os, "forbidden")
    ELSE IF ~OnlineExists(os, i) THEN OnlineOutcome(os, "not_found")
    ELSE OnlineOutcome([os EXCEPT ![i] = cancel_session(@)], "ok")

\* OnlineSessionJoinSerializer.validate: the session is looked up by the
\* meeting code, then PIN and status are tested on the row that was loaded
OnlineSessionJoinSerializer_validate(os, i, pin_ok) ==
    IF ~OnlineExists(os, i) THEN "invalid_code"
    ELSE IF ~pin_ok THEN "invalid_pin"
    ELSE IF os[i].status = "cancelled" THEN "cancelled"
    ELSE IF os[i].status = "completed" THEN "ended"
    ELSE "ok"

\* POST online-sessions/validate/ (OnlineSessionJoinSerializer), open to
\* everyone who has the meeting code and the PIN
online_session_validate(os, i, pin_ok, participant_type, now) ==
    IF OnlineSessionJoinSerializer_validate(os, i, pin_ok) # "ok"
    THEN OnlineOutcome(os, OnlineSessionJoinSerializer_validate(os, i,
                                                                pin_ok))
    ELSE OnlineOutcome(
             [os EXCEPT ![i] = mark_joined(@, participant_type, now)], "ok")

\* POST online-sessions/<id>/extend/ (OnlineSessionExtendSerializer), open
\* to everyone
online_session_extend(os, i, additional) ==
    IF ~OnlineExists(os, i) THEN OnlineOutcome(os, "not_found")
    ELSE IF os[i].status # "active" THEN OnlineOutcome(os, "not_active")
    ELSE IF additional < MinAdditional \/ additional > MaxAdditional
            \/ additional % AdditionalStep # 0
    THEN OnlineOutcome(os, "invalid")
    ELSE OnlineOutcome([os EXCEPT ![i] = extend_session(@, additional)], "ok")

\* POST online-sessions/<id>/complete/, open to everyone
online_session_complete(os, i) ==
    IF ~OnlineExists(os, i) THEN OnlineOutcome(os, "not_found")
    ELSE OnlineOutcome([os EXCEPT ![i] = complete_session(@)], "ok")

\* the end a session has reached, its extension included
LastEnd(o) == IF o.extended_end # NoTime THEN o.extended_end
              ELSE o.scheduled_end

ApplyOnline(r) ==
    /\ \A i \in OnlineIds : LastEnd(r.online[i]) <= MaxSlot + MaxExtend
    /\ online' = r.online

\* the windows the requests ask for: every window of one hour, [10:00,
\* 11:00), [10:30, 11:30) and [11:00, 12:00) among them, and one that ends
\* where it starts
RequestWindows ==
    {<<start, start + 2>> : start \in 0..(MaxSlot - 2)} \cup {<<2, 2>>}

\* what a PUT carries for the window: nothing, a new start, or both ends
UpdateWindows == RequestWindows \cup {<<NoTime, NoTime>>, <<1, NoTime>>}

ScheduleOnline(api_ok) ==
    \E u \in Users, g \in ExistingGigs, w \in RequestWindows :
        /\ FreeOnlineIds(online) # {}
        /\ ApplyOnline(online_sessions_list_post(online, gigs, u, g, w[1],
                                                 w[2], api_ok))
        /\ UNCHANGED <<gigs, sessions, run, conc>>

\* what a PUT carries: a window and no status, or a status and no window
UpdateInputs ==
    {<<w[1], w[2], NoStatus>> : w \in UpdateWindows}
    \cup {<<NoTime, NoTime, st>> : st \in OnlineStatuses}

UpdateOnline ==
    \E u \in Users, i \in OnlineIds, req \in UpdateInputs :
        /\ ApplyOnline(online_session_detail_put(online, u, i, req[1],
                                                 req[2], req[3]))
        /\ UNCHANGED <<gigs, sessions, run, conc>>

CancelOnline ==
    \E u \in Users, i \in OnlineIds :
        /\ ApplyOnline(online_session_detail_delete(online, u, i))
        /\ UNCHANGED <<gigs, sessions, run, conc>>

\* the latest instant stored in a session: the clock does not run backwards
LastStamp(os) ==
    LET stamps == {os[i].tutor_joined_at : i \in OnlineIds}
                  \cup {os[i].client_joined_at : i \in OnlineIds}
                  \cup {os[i].actual_start : i \in OnlineIds}
    IN CHOOSE m \in stamps : \A x \in stamps : x <= m

JoinOnline(participant_type, now) ==
    \E i \in OnlineIds, pin_ok \in BOOLEAN :
        /\ now >= LastStamp(online)
        /\ ApplyOnline(online_session_validate(online, i, pin_ok,
                                               participant_type, now))
        /\ UNCHANGED <<gigs, sessions, run, conc>>

ExtendOnline ==
    \E i \in OnlineIds, additional \in ExtendInputs :
        /\ ApplyOnline(online_session_extend(online, i, additional))
        /\ UNCHANGED <<gigs, sessions, run, conc>>

CompleteOnline ==
    \E i \in OnlineIds :
        /\ ApplyOnline(online_session_complete(online, i))
        /\ UNCHANGED <<gigs, sessions, run, conc>>

\* the runs about windows and statuses: the provider gives its room and
\* the tutor is the one who joins, at the first instant
OnlineRequest ==
    \/ ScheduleOnline(RoomProvided)
    \/ UpdateOnline
    \/ CancelOnline
    \/ JoinOnline("tutor", 1)
    \/ ExtendOnline
    \/ CompleteOnline

\* Gig 1 is assigned to tutor 1 and running; gig 2 is pending, either
\* unassigned or assigned to a second tutor.  No online session exists.
InitOnline ==
    \E t \in {NoTutor, OtherTutor} :
        /\ gigs = [g \in GigIds |->
                     IF g = 1
                     THEN [status |-> "active", tutor |-> 1,
                           total_hours |-> MaxTotal,
                           total_hours_remaining |-> MaxTotal,
                           actual_start_date |-> 1, actual_end_date |-> 0]
                     ELSE [status |-> "pending", tutor |-> t,
                           total_hours |-> MaxTotal,
                           total_hours_remaining |-> MaxTotal,
                           actual_start_date |-> 0, actual_end_date |-> 0]]
        /\ sessions = [s \in SessionIds |-> NoSession]
        /\ run = RunOff
        /\ conc = ConcOff
        /\ online = [i \in OnlineIds |-> NoOnline]

SpecOnline == InitOnline /\ [][OnlineRequest]_vars

\* scheduling with the operations that leave the windows as they were
\* scheduled: sessions are joined, completed and cancelled, none is updated
\* or extended
ScheduleRequest ==
    \/ ScheduleOnline(RoomProvided)
    \/ CancelOnline
    \/ JoinOnline("tutor", 1)
    \/ CompleteOnline

SpecSchedule == InitOnline /\ [][ScheduleRequest]_vars

\* ---- a join in steps: online_session_validate runs without a lock or a
\* transaction, so other requests can run between the serializer's read
\* of the row and mark_joined's save of it ----
\* the serializer loads the row and tests it
JoinCheck(p, i, pin_ok, participant_type) ==
    /\ conc.join[p].pc = "new"
    /\ conc' = [conc EXCEPT !.join[p] =
                   IF OnlineSessionJoinSerializer_validate(online, i, pin_ok)
                          = "ok"
                   THEN [pc |-> "checked", sid |-> i,
                         participant_type |-> participant_type,
                         session |-> online[i], code |-> "none"]
                   ELSE [pc |-> "done", sid |-> i,
                         participant_type |-> participant_type,
                         session |-> NoOnline,
                         code |-> OnlineSessionJoinSerializer_validate(
                                      online, i, pin_ok)]]
    /\ UNCHANGED <<gigs, sessions, run, online>>

\* mark_joined changes the loaded row and saves every field of it
JoinWrite(p) ==
    /\ conc.join[p].pc = "checked"
    /\ online' = [online EXCEPT ![conc.join[p].sid] =
                     mark_joined(conc.join[p].session,
                                 conc.join[p].participant_type, 1)]
    /\ conc' = [conc EXCEPT !.join[p] = [@ EXCEPT !.pc = "done",
                                                   !.code = "ok"]]
    /\ UNCHANGED <<gigs, sessions, run>>

JoinRaceStep ==
    \/ \E p \in Procs, i \in OnlineIds, pin_ok \in BOOLEAN,
            participant_type \in ParticipantTypes :
         JoinCheck(p, i, pin_ok, participant_type)
    \/ \E p \in Procs : JoinWrite(p)
    \/ CancelOnline
    \/ CompleteOnline

\* the gigs of InitOnline with two sessions scheduled on gig 1, for
\* [10:00, 11:00) and [11:00, 12:00)
InitJoinRace ==
    \E t \in {NoTutor, OtherTutor} :
        LET gs == [g \in GigIds |->
                     IF g = 1
                     THEN [status |-> "active", tutor |-> 1,
                           total_hours |-> MaxTotal,
                           total_hours_remaining |-> MaxTotal,
                           actual_start_date |-> 1, actual_end_date |-> 0]
                     ELSE [status |-> "pending", tutor |-> t,
                           total_hours |-> MaxTotal,
                           total_hours_remaining |-> MaxTotal,
                           actual_start_date |-> 0, actual_end_date |-> 0]]
            first == online_sessions_list_post(
                         [i \in OnlineIds |-> NoOnline], gs, "admin", 1, 0, 2,
                         TRUE).online
            second == online_sessions_list_post(first, gs, "admin", 1, 2, 4,
                                                TRUE).online
        IN /\ gigs = gs
           /\ sessions = [s \in SessionIds |-> NoSession]
           /\ run = RunOff
           /\ conc = [on |-> FALSE, join |-> [p \in Procs |-> NewJoin]]
           /\ online = second

SpecJoinRace == InitJoinRace /\ [][JoinRaceStep]_vars

\* ---- scheduling in steps: online_sessions_list runs without a lock or
\* a transaction, so other requests can run between the serializer's
\* conflict query, the draw of the meeting code and the insert ----
\* OnlineSessionCreateSerializer.validate on the rows stored now
ScheduleCheck(p, g, start, end) ==
    /\ conc.create[p].pc = "new"
    /\ conc' = [conc EXCEPT !.create[p] =
                   IF OnlineSessionCreate_validate(online, gigs, g, start,
                                                   end) = "ok"
                   THEN [pc |-> "validated",
                         row |-> [NoOnline EXCEPT
                                     !.gig = g, !.tutor = gigs[g].tutor,
                                     !.status = "scheduled",
                                     !.scheduled_start = start,
                                     !.scheduled_end = end],
                         code |-> "none"]
                   ELSE [pc |-> "done", row |-> NoOnline,
                         code |-> OnlineSessionCreate_validate(
                                      online, gigs, g, start, end)]]
    /\ UNCHANGED <<gigs, sessions, run, online>>

\* generate_meeting_code: the draw c is kept when no stored row carries it
ScheduleGenerate(p, c) ==
    /\ conc.create[p].pc = "validated"
    /\ \A i \in OnlineIds :
           ~(OnlineExists(online, i) /\ online[i].meeting_code = c)
    /\ conc' = [conc EXCEPT !.create[p] =
                   [@ EXCEPT !.pc = "generated", !.row.meeting_code = c,
                             !.row.pin_code = 1]]
    /\ UNCHANGED <<gigs, sessions, run, online>>

\* super().save() and the room; an IntegrityError leaves the view as a 500
ScheduleInsert(p) ==
    /\ conc.create[p].pc = "generated"
    /\ FreeOnlineIds(online) # {}
    /\ LET i == NextOnlineId(online)
           saved == OnlineSession_insert(online, i, conc.create[p].row)
       IN /\ online' = IF saved.raised THEN saved.online
                       ELSE create_digital_samba_room(saved.online, i,
                                                      RoomProvided).online
          /\ conc' = [conc EXCEPT !.create[p] =
                         [@ EXCEPT !.pc = "done",
                                   !.code = IF saved.raised THEN "error"
                                            ELSE "ok"]]
    /\ UNCHANGED <<gigs, sessions, run>>

ScheduleRaceStep ==
    \/ \E p \in Procs, g \in ExistingGigs, w \in RequestWindows :
         ScheduleCheck(p, g, w[1], w[2])
    \/ \E p \in Procs, c \in MeetingCodes : ScheduleGenerate(p, c)
    \/ \E p \in Procs : ScheduleInsert(p)

\* the gigs of InitOnline, no online session stored, two schedule requests
\* not yet started
InitScheduleRace ==
    \E t \in {NoTutor, OtherTutor} :
        /\ gigs = [g \in GigIds |->
                     IF g = 1
                     THEN [status |-> "active", tutor |-> 1,
                           total_hours |-> MaxTotal,
                           total_hours_remaining |-> MaxTotal,
                           actual_start_date |-> 1, actual_end_date |-> 0]
                     ELSE [status |-> "pending", tutor |-> t,
                           total_hours |-> MaxTotal,
                           total_hours_remaining |-> MaxTotal,
                           actual_start_date |-> 0, actual_end_date |-> 0]]
        /\ sessions = [s \in SessionIds |-> NoSession]
        /\ run = RunOff
        /\ conc = [on |-> FALSE, create |-> [p \in Procs |-> NewCreate]]
        /\ online = [i \in OnlineIds |-> NoOnline]

SpecScheduleRace == InitScheduleRace /\ [][ScheduleRaceStep]_vars

\* joining: the two sessions of InitJoinRace are joined by either
\* participant at any instant that is not in the past, cancelled and
\* completed
JoinRequest ==
    \/ \E participant_type \in ParticipantTypes, now \in Times :
         JoinOnline(participant_type, now)
    \/ CancelOnline
    \/ CompleteOnline

SpecJoin == InitJoinRace /\ [][JoinRequest]_vars

\* extending: the two sessions of InitJoinRace are joined, extended,
\* cancelled and completed; no request moves their scheduled windows
ExtendRequest ==
    \/ JoinOnline("tutor", 1)
    \/ ExtendOnline
    \/ CancelOnline
    \/ CompleteOnline

SpecExtend == InitJoinRace /\ [][ExtendRequest]_vars

\* the two operations that call out to a collaborator, scheduling (the
\* video provider) and verification (the mail server), with the operations
\* that give them something to work on
CollaboratorRequest ==
    \/ \E api_ok \in ProviderOutcomes : ScheduleOnline(api_ok)
    \/ \E u \in Users, g \in GigIds, h \in HoursInputs :
         CreateSession(u, g, h)
    \/ \E u \in Users, g \in GigIds, s \in SessionIds,
            smtp_ok \in ProviderOutcomes :
         VerifySession(u, g, s, smtp_ok)

\* Gig 1 is assigned to tutor 1 and running, gig 2 is pending and
\* unassigned; no session of either kind exists.
InitCollaborators ==
    /\ gigs = [g \in GigIds |->
                 IF g = 1
                 THEN [status |-> "active", tutor |-> 1,
                       total_hours |-> MaxTotal,
                       total_hours_remaining |-> MaxTotal,
                       actual_start_date |-> 1, actual_end_date |-> 0]
                 ELSE [status |-> "pending", tutor |-> NoTutor,
                       total_hours |-> MaxTotal,
                       total_hours_remaining |-> MaxTotal,
                       actual_start_date |-> 0, actual_end_date |-> 0]]
    /\ sessions = [s \in SessionIds |-> NoSession]
    /\ run = RunOff
    /\ conc = ConcOff
    /\ online = [i \in OnlineIds |-> NoOnline]

SpecCollaborators == InitCollaborators /\ [][CollaboratorRequest]_vars

\* ---- deleting gigs and tutors (gigs/views.py gig_detail DELETE,
\* tutors/views.py tutor_detail DELETE) ----
\* GigSession.gig and OnlineSession.gig are foreign keys with
\* on_delete=CASCADE, and so is Gig.tutor: the rows that point to a deleted
\* row go with it.  The Tutor rows themselves are not part of the store; a
\* deleted tutor is one no gig points to any more.
WithoutGigs(gs, G) == [g \in GigIds |-> IF g \in G THEN NoGig ELSE gs[g]]
WithoutSessionsOf(ss, G) ==
    [s \in SessionIds |-> IF ss[s].gig \in G THEN NoSession ELSE ss[s]]
WithoutOnlineOf(os, G) ==
    [i \in OnlineIds |-> IF os[i].gig \in G THEN NoOnline ELSE os[i]]

\* the gigs assigned to tutor t
GigsOfTutor(gs, t) == {g \in GigIds : GigExists(gs, g) /\ gs[g].tutor = t}

\* DELETE without the check of the gig's status
gig_detail_delete_any_status(gs, ss, u, g) ==
    IF ~can_access_gig(u, gs[g]) \/ ~(is_admin(u) \/ is_staff(u))
    THEN Outcome(gs, ss, "forbidden")
    ELSE Outcome(WithoutGigs(gs, {g}), WithoutSessionsOf(ss, {g}), "ok")

\* DELETE gigs/<gig_id>/
gig_detail_delete(gs, ss, u, g) ==
    IF ~can_access_gig(u, gs[g]) \/ ~(is_admin(u) \/ is_staff(u))
    THEN Outcome(gs, ss, "forbidden")
    ELSE IF gs[g].status = "active" THEN Outcome(gs, ss, "conflict")
    ELSE Outcome(WithoutGigs(gs, {g}), WithoutSessionsOf(ss, {g}), "ok")

\* DELETE tutors/<tutor_id>/
tutor_detail_delete(gs, ss, u, t) ==
    LET G == GigsOfTutor(gs, t)
    IN IF ~(is_admin(u) \/ is_staff(u)) THEN Outcome(gs, ss, "forbidden")
       ELSE IF \E g \in G : gs[g].status \in {"pending", "active"}
       THEN Outcome(gs, ss, "conflict")
       ELSE Outcome(WithoutGigs(gs, G), WithoutSessionsOf(ss, G), "ok")

\* the store after a delete request: the outcome, and the online sessions
\* without those of the gigs that are gone
ApplyDelete(r) ==
    /\ gigs' = r.gigs
    /\ sessions' = r.sessions
    /\ online' = WithoutOnlineOf(online, {g \in GigIds :
                                            GigExists(gigs, g)
                                            /\ ~GigExists(r.gigs, g)})

DeleteGig(u, g) ==
    /\ GigExists(gigs, g)
    /\ ApplyDelete(gig_detail_delete(gigs, sessions, u, g))
    /\ UNCHANGED <<run, conc>>

DeleteTutor(u, t) ==
    /\ GigsOfTutor(gigs, t) # {}
    /\ ApplyDelete(tutor_detail_delete(gigs, sessions, u, t))
    /\ UNCHANGED <<run, conc>>

DeleteRequest ==
    \/ \E u \in Users, g \in GigIds : DeleteGig(u, g)
    \/ \E u \in Users, t \in Tutors : DeleteTutor(u, t)
    \/ \E u \in Users, g \in GigIds : StartGig(u, g)
    \/ \E u \in Users, g \in GigIds : CompleteGig(u, g)
    \/ \E u \in Users, g \in GigIds : CancelGig(u, g)
    \/ \E u \in Users, g \in GigIds : HoldGig(u, g)
    \/ \E u \in Users, g \in GigIds : ResumeGig(u, g)
    \/ \E u \in Users, g \in GigIds : UnassignGig(u, g)
    \/ \E u \in Users, g \in GigIds, h \in HoursInputs :
         CreateSession(u, g, h)

\* Two pending gigs, the first assigned to the tutor, the second assigned
\* to the tutor or to nobody.
InitDelete ==
    \E t \in Tutors \cup {NoTutor} :
        /\ gigs = [g \in GigIds |->
                     [status |-> "pending",
                      tutor |-> IF g = 1 THEN 1 ELSE t,
                      total_hours |-> MaxTotal,
                      total_hours_remaining |-> MaxTotal,
                      actual_start_date |-> 0, actual_end_date |-> 0]]
        /\ sessions = [s \in SessionIds |-> NoSession]
        /\ run = RunOff
        /\ conc = ConcOff
        /\ online = [i \in OnlineIds |-> NoOnline]

SpecDelete == InitDelete /\ [][DeleteRequest]_vars

\* ---- properties ----
\* C1: ledger conservation.  After any sequence of session create, verify,
\* unverify, edit and delete requests, every gig's total_hours_remaining
\* equals its initial total_hours minus the hours_logged of its sessions
\* that are currently verified.
C1_LedgerConservation ==
    \A g \in GigIds :
        GigExists(gigs, g) =>
            gigs[g].total_hours_remaining =
                gigs[g].total_hours - VerifiedHours(sessions, g)

\* C2: two requests that verify, unverify or edit sessions of the same gig
\* and whose reads and writes interleave never lose an update: when both
\* have finished, the gig's total_hours_remaining is what one of the two
\* serial orders of the same requests gives.
C2_NoLostUpdate ==
    AllDone =>
        gigs[1].total_hours_remaining \in
            {Serial(conc.p[1], conc.p[2]).gigs[1].total_hours_remaining,
             Serial(conc.p[2], conc.p[1]).gigs[1].total_hours_remaining}

\* the change of every gig's total_hours_remaining from the store to the
\* outcome r is the opposite of the change of its verified hours
LedgerPaired(r) ==
    \A g \in GigIds :
        r.gigs[g].total_hours_remaining - gigs[g].total_hours_remaining =
            VerifiedHours(sessions, g) - VerifiedHours(r.sessions, g)

\* the outcome r is a refusal that wrote nothing
Rejected(r) == r.code # "ok" /\ r.gigs = gigs /\ r.sessions = sessions

\* C3: every change of a session's verification state, and every change of
\* a verified session's hours_logged, is stored together with the matching
\* change of the gig's total_hours_remaining: whatever a verify, unverify
\* or edit request leaves in the store, also when the gig write fails, the
\* ledger has moved by exactly what the stored sessions say.
C3_SessionAndLedgerStoredTogether ==
    \A u \in Users, s \in SessionIds :
        SessionExists(sessions, s) =>
            LET g == sessions[s].gig
            IN /\ LedgerPaired(verify_session(gigs, sessions, u, g, s, TRUE))
               /\ LedgerPaired(verify_session(gigs, sessions, u, g, s, FALSE))
               /\ LedgerPaired(verify_session_view(gigs, sessions, u, s))
               /\ LedgerPaired(unverify_session_view(gigs, sessions, u, s))
               /\ \A h \in HoursInputs :
                    LedgerPaired(gig_session_detail_put(gigs, sessions, u,
                                                        g, s, h, g))

\* C4: verifying an unverified session whose hours_logged is greater than
\* the gig's total_hours_remaining is rejected on every verification path
\* (the verify endpoint, the admin single-session view, the admin bulk
\* actions) and leaves the session and the gig as they were.
C4_OverdrawRejected ==
    \A u \in Users, s \in UnverifiedSessions :
        sessions[s].hours_logged >
            gigs[sessions[s].gig].total_hours_remaining =>
            /\ Rejected(verify_session(gigs, sessions, u, sessions[s].gig,
                                       s, TRUE))
            /\ Rejected(verify_session_view(gigs, sessions, u, s))
            /\ Rejected(verify_selected_sessions(gigs, sessions, u, <<s>>))
            /\ Rejected(verify_all_sessions(gigs, sessions, u, <<s>>))

\* C5: total_hours_remaining of every gig is never negative.
C5_RemainingNeverNegative ==
    \A g \in GigIds :
        GigExists(gigs, g) => gigs[g].total_hours_remaining >= 0

\* C6: total_hours_remaining of every stored gig never exceeds its
\* total_hours.
C6_RemainingAtMostTotal ==
    \A g \in GigIds :
        GigExists(gigs, g) =>
            gigs[g].total_hours_remaining <= gigs[g].total_hours

\* C6 witness: a resized gig whose remaining hours sit at the new total
\* while one of its sessions is verified: the next restore would exceed it.
C6_Witness ==
    \E g \in GigIds, s \in SessionIds :
        /\ GigExists(gigs, g)
        /\ gigs[g].total_hours < MaxTotal
        /\ gigs[g].total_hours_remaining = gigs[g].total_hours
        /\ sessions[s].gig = g /\ sessions[s].is_verified

\* C7: a successful verify of an unverified session followed by unverify of
\* the same session leaves the gig's total_hours_remaining at its value
\* before the verify and the session unverified with verified_by and
\* verified_at cleared, however often the pair is repeated; the unverify of
\* such a pair never fails.
C7_VerifyUnverifyRestores ==
    /\ run.phase # "failed"
    /\ run.phase = "restored" =>
         /\ gigs[sessions[run.sid].gig].total_hours_remaining = run.pre
         /\ ~sessions[run.sid].is_verified
         /\ sessions[run.sid].verified_by = NoUser
         /\ sessions[run.sid].verified_at = 0

\* C7 witness: the pair has been run MaxCycles times on one session
C7_Witness == run.phase = "restored" /\ run.n = MaxCycles

\* C8: verify of a session that is already verified is refused as already
\* verified and unverify of a session that is not verified is refused as
\* not verified, by the endpoint and by the admin views; neither writes
\* anything.
C8_RepeatRejected ==
    \A u \in Users, s \in SessionIds :
        (SessionExists(sessions, s) /\ (is_admin(u) \/ is_staff(u))) =>
            LET g == sessions[s].gig
            IN IF sessions[s].is_verified
               THEN /\ verify_session(gigs, sessions, u, g, s, TRUE) =
                         Outcome(gigs, sessions, "already_verified")
                    /\ verify_session_view(gigs, sessions, u, s) =
                         Outcome(gigs, sessions, "already_verified")
               ELSE /\ verify_session(gigs, sessions, u, g, s, FALSE) =
                         Outcome(gigs, sessions, "not_verified")
                    /\ unverify_session_view(gigs, sessions, u, s) =
                         Outcome(gigs, sessions, "not_verified")

\* C8 witness: a verified session, whose hours are off the ledger, and an
\* unverified one exist, and both refusals are given
C8_Witness ==
    \E s1 \in VerifiedSessions, s2 \in UnverifiedSessions :
        /\ verify_session(gigs, sessions, "admin", sessions[s1].gig, s1,
                          TRUE).code = "already_verified"
        /\ verify_session(gigs, sessions, "admin", sessions[s2].gig, s2,
                          FALSE).code = "not_verified"
        /\ gigs[sessions[s1].gig].total_hours_remaining <
               gigs[sessions[s1].gig].total_hours

\* C9: creating a session stores it unverified with the verification fields
\* empty and leaves every gig's total_hours_remaining unchanged; editing
\* hours_logged or gig of an unverified session leaves every gig unchanged
\* and the session unverified.
C9_UnverifiedLeavesLedger ==
    /\ \A u \in Users, g \in ExistingGigs, h \in HoursInputs :
         FreeSessionIds(sessions) # {} =>
             LET r == gig_sessions_list_create(gigs, sessions, u, g, h)
                 n == NextSessionId(sessions)
             IN /\ r.gigs = gigs
                /\ r.code = "ok" =>
                     r.sessions[n] = [gig |-> g, hours_logged |-> h,
                                      is_verified |-> FALSE,
                                      verified_by |-> NoUser,
                                      verified_at |-> 0]
                /\ r.code # "ok" => r.sessions = sessions
    /\ \A u \in Users, s \in UnverifiedSessions, h \in HoursInputs,
          g2 \in ExistingGigs :
         LET r == gig_session_detail_put(gigs, sessions, u, sessions[s].gig,
                                         s, h, g2)
         IN /\ r.gigs = gigs
            /\ ~r.sessions[s].is_verified

\* C9 witness: a session created after another one was verified sits
\* unverified on a gig whose ledger has moved, and an edit of it to other
\* hours and to the other gig is stored
C9_Witness ==
    \E s \in UnverifiedSessions, v \in VerifiedSessions, h \in HoursInputs,
       g2 \in ExistingGigs :
        /\ v < s /\ sessions[v].gig = sessions[s].gig
        /\ gigs[sessions[s].gig].total_hours_remaining <
               gigs[sessions[s].gig].total_hours
        /\ h # sessions[s].hours_logged /\ g2 # sessions[s].gig
        /\ gig_session_detail_put(gigs, sessions, "tutor", sessions[s].gig,
                                  s, h, g2).code = "ok"

\* C10: editing hours_logged of a verified session from old to new changes
\* the gig's total_hours_remaining by exactly -(new - old) and the session
\* stays verified with the new hours.
C10_VerifiedEditAdjustsByDelta ==
    \A u \in Users, s \in VerifiedSessions, h \in HoursInputs :
        LET g == sessions[s].gig
            r == gig_session_detail_put(gigs, sessions, u, g, s, h, g)
        IN r.sessions[s].hours_logged # sessions[s].hours_logged =>
               /\ r.gigs[g].total_hours_remaining =
                      gigs[g].total_hours_remaining
                          - (h - sessions[s].hours_logged)
               /\ r.sessions[s].is_verified
               /\ r.sessions[s].hours_logged = h

\* C11: deleting a verified session removes the session and adds exactly
\* its hours_logged back to the gig's total_hours_remaining.
C11_DeleteVerifiedRestores ==
    \A u \in Users, s \in VerifiedSessions :
        (is_admin(u) \/ is_staff(u)) =>
            LET g == sessions[s].gig
                r == gig_session_detail_delete(gigs, sessions, u, g, s)
            IN /\ ~SessionExists(r.sessions, s)
               /\ r.gigs[g].total_hours_remaining =
                      gigs[g].total_hours_remaining + sessions[s].hours_logged

\* C12: deleting an unverified session removes the session and leaves the
\* gig's total_hours_remaining unchanged.
C12_DeleteUnverifiedLeavesLedger ==
    \A u \in Users, s \in UnverifiedSessions :
        (is_admin(u) \/ is_staff(u)) =>
            LET g == sessions[s].gig
                r == gig_session_detail_delete(gigs, sessions, u, g, s)
            IN /\ ~SessionExists(r.sessions, s)
               /\ r.gigs[g].total_hours_remaining =
                      gigs[g].total_hours_remaining

\* the outcomes of the session endpoints for every request that can be made
\* in the current store
SessionOutcomes ==
    {gig_sessions_list_create(gigs, sessions, u, g, h) :
        u \in Users, g \in {x \in ExistingGigs : FreeSessionIds(sessions) # {}},
        h \in HoursInputs}
    \cup {gig_session_detail_put(gigs, sessions, u, sessions[s].gig, s, h, g2) :
            u \in Users, s \in UnverifiedSessions \cup VerifiedSessions,
            h \in HoursInputs, g2 \in ExistingGigs}
    \cup {gig_session_detail_delete(gigs, sessions, u, sessions[s].gig, s) :
            u \in Users, s \in UnverifiedSessions \cup VerifiedSessions}
    \cup {verify_session(gigs, sessions, u, sessions[s].gig, s, v) :
            u \in Users, s \in UnverifiedSessions \cup VerifiedSessions,
            v \in BOOLEAN}

\* the outcomes of the gig endpoints for every request that can be made in
\* the current store
GigOutcomes ==
    {assign_gig(gigs, sessions, u, g, t) :
        u \in Users, g \in ExistingGigs, t \in Tutors}
    \cup {unassign_gig(gigs, sessions, u, g) : u \in Users, g \in ExistingGigs}
    \cup {start_gig(gigs, sessions, u, g) : u \in Users, g \in ExistingGigs}
    \cup {complete_gig(gigs, sessions, u, g) : u \in Users, g \in ExistingGigs}
    \cup {cancel_gig(gigs, sessions, u, g) : u \in Users, g \in ExistingGigs}
    \cup {hold_gig(gigs, sessions, u, g) : u \in Users, g \in ExistingGigs}
    \cup {resume_gig(gigs, sessions, u, g) : u \in Users, g \in ExistingGigs}
    \cup {adjust_gig_hours(gigs, sessions, u, g, a) :
            u \in Users, g \in ExistingGigs, a \in AdjustInputs}
    \cup {gig_detail_put(gigs, sessions, u, g, nt) :
            u \in Users, g \in ExistingGigs, nt \in TotalInputs}

\* C13: whenever a gig or session operation answers with an error
\* (validation failure, state conflict, insufficient hours, permission
\* denied or the generic unexpected-error answer), the stored gigs and
\* sessions are exactly what they were before the operation.
C13_ErrorLeavesStore ==
    \A r \in SessionOutcomes \cup GigOutcomes :
        r.code # "ok" => (r.gigs = gigs /\ r.sessions = sessions)

\* C14: start succeeds only when the gig is pending and has a tutor, on the
\* start endpoint and on the admin bulk start action, and then sets status
\* to active and stamps actual_start_date; otherwise the gig is unchanged.
C14_StartNeedsPendingAndTutor ==
    \A u \in Users, g \in ExistingGigs :
        (is_admin(u) \/ is_staff(u)) =>
            LET ok == gigs[g].status = "pending" /\ gigs[g].tutor # NoTutor
                started == [gigs[g] EXCEPT !.status = "active",
                                           !.actual_start_date = 1]
            IN \A r \in {start_gig(gigs, sessions, u, g),
                         start_selected_gigs(gigs, sessions, u, {g})} :
                   /\ r.sessions = sessions
                   /\ r.gigs = IF ok THEN [gigs EXCEPT ![g] = started]
                                     ELSE gigs

\* C15: once a gig is completed or cancelled, assign, unassign, start,
\* hold, resume, complete, cancel, manual hour adjustment and update of
\* total_hours are each rejected and no field of the gig changes.
C15_TerminalGigFrozen ==
    \A u \in Users, g \in ExistingGigs :
        gigs[g].status \in {"completed", "cancelled"} =>
            /\ \A t \in Tutors : Rejected(assign_gig(gigs, sessions, u, g, t))
            /\ Rejected(unassign_gig(gigs, sessions, u, g))
            /\ Rejected(start_gig(gigs, sessions, u, g))
            /\ Rejected(hold_gig(gigs, sessions, u, g))
            /\ Rejected(resume_gig(gigs, sessions, u, g))
            /\ Rejected(complete_gig(gigs, sessions, u, g))
            /\ Rejected(cancel_gig(gigs, sessions, u, g))
            /\ \A a \in AdjustInputs :
                 Rejected(adjust_gig_hours(gigs, sessions, u, g, a))
            /\ \A nt \in TotalInputs :
                 Rejected(gig_detail_put(gigs, sessions, u, g, nt))

\* the outcome r has gig g changed to gig1 and nothing else changed
GigBecomes(r, g, gig1) ==
    r.code = "ok" /\ r.gigs = [gigs EXCEPT ![g] = gig1]
                  /\ r.sessions = sessions

\* the outcome r of a bulk action, which reports no error for the rows it
\* skips, has written nothing
Untouched(r) == r.gigs = gigs /\ r.sessions = sessions

\* the status changes of a gig the operations may make
AllowedTransitions ==
    {<<"pending", "active">>, <<"active", "on_hold">>,
     <<"on_hold", "active">>, <<"active", "completed">>,
     <<"on_hold", "completed">>, <<"pending", "cancelled">>,
     <<"active", "cancelled">>, <<"on_hold", "cancelled">>}

\* what the status operations answer for an administrator in the current
\* store: each succeeds from its listed statuses only, and from any other
\* status it is rejected (skipped by the bulk action) and writes nothing
StatusOperationsGuarded ==
    \A u \in Users, g \in ExistingGigs :
        (is_admin(u) \/ is_staff(u)) =>
            LET gig == gigs[g]
                st == gig.status
            IN /\ IF st = "active"
                  THEN /\ GigBecomes(hold_gig(gigs, sessions, u, g), g,
                                     [gig EXCEPT !.status = "on_hold"])
                       /\ GigBecomes(put_on_hold(gigs, sessions, u, {g}), g,
                                     [gig EXCEPT !.status = "on_hold"])
                  ELSE /\ Rejected(hold_gig(gigs, sessions, u, g))
                       /\ Untouched(put_on_hold(gigs, sessions, u, {g}))
               /\ IF st = "on_hold"
                  THEN /\ GigBecomes(resume_gig(gigs, sessions, u, g), g,
                                     [gig EXCEPT !.status = "active"])
                       /\ GigBecomes(resume_from_hold(gigs, sessions, u,
                                                      {g}), g,
                                     [gig EXCEPT !.status = "active"])
                  ELSE /\ Rejected(resume_gig(gigs, sessions, u, g))
                       /\ Untouched(resume_from_hold(gigs, sessions, u, {g}))
               /\ IF st \in {"active", "on_hold"}
                  THEN complete_gig(gigs, sessions, u, g).code = "ok"
                       /\ complete_gig(gigs, sessions, u, g).gigs[g].status
                              = "completed"
                  ELSE Rejected(complete_gig(gigs, sessions, u, g))
               /\ st # "active" =>
                      Untouched(complete_selected_gigs(gigs, sessions, u, {g}))
               /\ IF st \notin {"completed", "cancelled"}
                  THEN /\ GigBecomes(cancel_gig(gigs, sessions, u, g), g,
                                     [gig EXCEPT !.status = "cancelled"])
                       /\ GigBecomes(cancel_selected_gigs(gigs, sessions, u,
                                                          {g}), g,
                                     [gig EXCEPT !.status = "cancelled"])
                  ELSE /\ Rejected(cancel_gig(gigs, sessions, u, g))
                       /\ Untouched(cancel_selected_gigs(gigs, sessions, u,
                                                         {g}))

C17_NoOverlapPerTutor ==
    \A i, j \in OnlineIds :
        (/\ i # j
         /\ OnlineExists(online, i) /\ OnlineExists(online, j)
         /\ online[i].tutor = online[j].tutor
         /\ online[i].status \in {"scheduled", "active"}
         /\ online[j].status \in {"scheduled", "active"}) =>
            ~(/\ online[i].scheduled_start < online[j].scheduled_end
              /\ online[j].scheduled_start < online[i].scheduled_end)

\* the window [start, end) runs into a scheduled or active session of the
\* tutor: existing.start < new.end and existing.end > new.start
Blocked(tutor, start, end) ==
    \E i \in OnlineIds :
        /\ OnlineExists(online, i)
        /\ online[i].tutor = tutor
        /\ online[i].status = "scheduled" \/ online[i].status = "active"
        /\ online[i].scheduled_start < end
        /\ online[i].scheduled_end > start

\* C18: schedule is rejected exactly when start >= end, or the gig has no
\* assigned tutor, or some scheduled or active session of the gig's tutor
\* has existing.start < new.end and existing.end > new.start; an accepted
\* request stores the session as scheduled for the gig's tutor; with only
\* [10:00,11:00) in the tutor's way, [10:30,11:30) is rejected and
\* [11:00,12:00) is accepted; completed and cancelled sessions never block.
C18_ScheduleRejectedExactly ==
    \A u \in Users, g \in ExistingGigs, start \in Slots, end \in Slots :
        may_manage_online(u) =>
            LET refused == \/ start >= end
                           \/ gigs[g].tutor = NoTutor
                           \/ Blocked(gigs[g].tutor, start, end)
                v == OnlineSessionCreate_validate(online, gigs, g, start, end)
            IN /\ (v # "ok") <=> refused
               /\ FreeOnlineIds(online) # {} =>
                    LET r == online_sessions_list_post(online, gigs, u, g,
                                                       start, end, TRUE)
                        n == NextOnlineId(online)
                    IN IF refused
                       THEN r.code # "ok" /\ r.online = online
                       ELSE /\ r.code = "ok"
                            /\ r.online =
                                 [online EXCEPT ![n] =
                                     [gig |-> g, tutor |-> gigs[g].tutor,
                                      status |-> "scheduled",
                                      scheduled_start |-> start,
                                      scheduled_end |-> end,
                                      extended_end |-> NoTime,
                                      meeting_code |->
                                          generate_meeting_code(online),
                                      pin_code |-> 1,
                                      digital_samba_room_id |-> 1,
                                      tutor_joined |-> FALSE,
                                      client_joined |-> FALSE,
                                      tutor_joined_at |-> NoStamp,
                                      client_joined_at |-> NoStamp,
                                      actual_start |-> NoStamp]]

\* C18 witness: [10:00,11:00) is scheduled for the tutor of gig 1; a
\* request for [10:30,11:30) on the gig is refused because the tutor is
\* busy and one for [11:00,12:00) is accepted
C18_Witness ==
    \E i \in OnlineIds :
        /\ online[i].status = "scheduled" /\ online[i].tutor = gigs[1].tutor
        /\ online[i].scheduled_start = 0 /\ online[i].scheduled_end = 2
        /\ FreeOnlineIds(online) # {}
        /\ online_sessions_list_post(online, gigs, "admin", 1, 1, 3,
                                     TRUE).code
               = "tutor_busy"
        /\ online_sessions_list_post(online, gigs, "admin", 1, 2, 4,
                                     TRUE).code
               = "ok"

\* the status changes of an online session that move it forward
ForwardSteps ==
    {<<"scheduled", "active">>, <<"active", "completed">>,
     <<"scheduled", "completed">>, <<"scheduled", "cancelled">>,
     <<"active", "cancelled">>}

\* C19: an online session's status only moves forward (scheduled to active
\* to completed, or to cancelled from scheduled or active) and never
\* changes again once it is completed or cancelled, under join, complete,
\* cancel/delete and update.
C19_OnlineStatusForward ==
    [][\A i \in OnlineIds :
          (OnlineExists(online, i)
           /\ online'[i].status # online[i].status) =>
              <<online[i].status, online'[i].status>> \in ForwardSteps]_vars

\* C21: after any create or edit request made by a tutor, the affected
\* session belongs, both before and after the request, to a gig whose tutor
\* is that tutor, and every other session is unchanged.
C21_TutorOwnGigsOnly ==
    \A u \in Users :
        (is_tutor(u) /\ ~is_admin(u)) =>
            /\ \A g \in ExistingGigs, h \in HoursInputs :
                 FreeSessionIds(sessions) # {} =>
                     LET r == gig_sessions_list_create(gigs, sessions, u, g, h)
                         n == NextSessionId(sessions)
                     IN /\ \A s \in SessionIds \ {n} :
                              r.sessions[s] = sessions[s]
                        /\ r.sessions # sessions =>
                              /\ r.sessions[n].gig = g
                              /\ gigs[g].tutor = tutor_profile(u)
            /\ \A s \in UnverifiedSessions \cup VerifiedSessions,
                  h \in HoursInputs, g2 \in ExistingGigs :
                 LET r == gig_session_detail_put(gigs, sessions, u,
                                                 sessions[s].gig, s, h, g2)
                 IN /\ \A s2 \in SessionIds \ {s} :
                          r.sessions[s2] = sessions[s2]
                    /\ r.sessions # sessions =>
                          /\ gigs[sessions[s].gig].tutor = tutor_profile(u)
                          /\ r.gigs[r.sessions[s].gig].tutor
                                 = tutor_profile(u)

\* what the delete requests of an administrator answer in the current
\* store: deleting an active gig is rejected, and deleting a tutor who has
\* an active gig is rejected
ActiveGigDeleteRejected ==
    \A u \in Users, g \in ExistingGigs :
        ((is_admin(u) \/ is_staff(u)) /\ gigs[g].status = "active") =>
            /\ Rejected(gig_detail_delete(gigs, sessions, u, g))
            /\ gigs[g].tutor # NoTutor =>
                   Rejected(tutor_detail_delete(gigs, sessions, u,
                                                gigs[g].tutor))

C23_CollaboratorFailureHarmless ==
    /\ \A u \in Users, g \in ExistingGigs, start \in Slots, end \in Slots :
          FreeOnlineIds(online) # {} =>
              LET ok == online_sessions_list_post(online, gigs, u, g, start,
                                                  end, TRUE)
                  failed == online_sessions_list_post(online, gigs, u, g,
                                                      start, end, FALSE)
                  n == NextOnlineId(online)
              IN /\ failed.code = ok.code
                 /\ ok.code = "ok" =>
                      /\ failed.online[n].status = "scheduled"
                      /\ failed.online[n].meeting_code # 0
                      /\ failed.online[n].pin_code # 0
                      /\ failed.online =
                           [ok.online EXCEPT ![n].digital_samba_room_id = 0]
    /\ \A u \in Users, s \in SessionIds :
          SessionExists(sessions, s) =>
              LET g == sessions[s].gig
                  ok == verify_session_notified(gigs, sessions, u, g, s,
                                                TRUE, TRUE)
                  failed == verify_session_notified(gigs, sessions, u, g, s,
                                                    TRUE, FALSE)
              IN /\ failed = ok
                 /\ ok.code = "ok" =>
                      /\ failed.sessions[s].is_verified
                      /\ failed.gigs[g].total_hours_remaining =
                           gigs[g].total_hours_remaining
                           - sessions[s].hours_logged

\* C23 witness: an online session can be scheduled on gig 1 and an
\* unverified session of the gig can be verified; both requests are
\* accepted with the collaborator failing, the online session is stored
\* without a room and the session is verified
C23_Witness ==
    \E s \in SessionIds :
        /\ FreeOnlineIds(online) # {}
        /\ sessions[s].gig = 1 /\ ~sessions[s].is_verified
        /\ LET r == online_sessions_list_post(online, gigs, "admin", 1, 0, 2,
                                              FALSE)
               n == NextOnlineId(online)
           IN /\ r.code = "ok"
              /\ r.online[n].status = "scheduled"
              /\ r.online[n].digital_samba_room_id = 0
        /\ LET v == verify_session_notified(gigs, sessions, "admin", 1, s,
                                            TRUE, FALSE)
           IN v.code = "ok" /\ v.sessions[s].is_verified

\* C24: an update that changes a gig's total_hours sets
\* total_hours_remaining to the new total minus the hours consumed (old
\* total_hours minus old total_hours_remaining), whatever the remaining
\* hours were, 0 included; an update whose new total is below the hours
\* consumed is rejected and changes nothing.
C24_ResizeKeepsConsumed ==
    \A u \in Users, g \in ExistingGigs, nt \in TotalInputs :
        (is_admin(u) \/ is_staff(u)) =>
            LET r == gig_detail_put(gigs, sessions, u, g, nt)
                consumed == gigs[g].total_hours
                            - gigs[g].total_hours_remaining
            IN /\ nt < consumed => Rejected(r)
               /\ (r.code = "ok" /\ nt # gigs[g].total_hours) =>
                      /\ r.gigs[g].total_hours = nt
                      /\ r.gigs[g].total_hours - r.gigs[g].total_hours_remaining
                           = consumed

\* C25: an adjustment by an amount with 0 < amount <= total_hours_remaining
\* takes exactly that amount off total_hours_remaining; with any other
\* amount it is rejected and the gig is unchanged.  (The notes of a gig
\* are not part of the store modelled here.)
C25_AdjustExactlyWhenInRange ==
    \A u \in Users, g \in ExistingGigs, amount \in AdjustInputs :
        (is_admin(u) \/ is_staff(u)) =>
            LET r == adjust_gig_hours(gigs, sessions, u, g, amount)
                remaining == MinAdjust * gigs[g].total_hours_remaining
            IN IF 0 < amount /\ amount <= remaining
               THEN /\ r.code = "ok"
                    /\ MinAdjust * r.gigs[g].total_hours_remaining
                         = remaining - amount
                    /\ r.gigs = [gigs EXCEPT ![g].total_hours_remaining =
                                     r.gigs[g].total_hours_remaining]
                    /\ r.sessions = sessions
               ELSE Rejected(r)

\* C26: complete on a gig that is active or on hold sets the status to
\* completed, stamps actual_end_date and sets total_hours_remaining to 0 in
\* one write of the gig, whatever hours remained and whatever unverified
\* sessions the gig has; the sessions stay as they are.
C26_CompleteZeroesRemaining ==
    \A u \in Users, g \in ExistingGigs :
        ((is_admin(u) \/ is_staff(u))
         /\ gigs[g].status \in {"active", "on_hold"}) =>
            LET r == complete_gig(gigs, sessions, u, g)
            IN /\ r.code = "ok"
               /\ r.gigs = [gigs EXCEPT ![g] =
                               [@ EXCEPT !.status = "completed",
                                         !.actual_end_date = 1,
                                         !.total_hours_remaining = 0]]
               /\ r.sessions = sessions

\* C26 witness: a gig on hold has hours left and an unverified session;
\* completing it is accepted and leaves no hours
C26_Witness ==
    \E g \in ExistingGigs, s \in SessionIds :
        /\ gigs[g].status = "on_hold"
        /\ gigs[g].total_hours_remaining > 0
        /\ sessions[s].gig = g /\ ~sessions[s].is_verified
        /\ LET r == complete_gig(gigs, sessions, "admin", g)
           IN /\ r.code = "ok"
              /\ r.gigs[g].status = "completed"
              /\ r.gigs[g].total_hours_remaining = 0
              /\ ~r.sessions[s].is_verified

\* C27: assign of a tutor who is active and not blocked (every tutor of
\* the model is) succeeds only when the gig has no tutor, and then sets the
\* tutor and changes neither the status nor the hour fields; on a gig that
\* has a tutor it is rejected and the gig is unchanged.  (The notes of a
\* gig are not part of the store modelled here.)
C27_AssignOnlyUnassigned ==
    \A u \in Users, g \in ExistingGigs, t \in Tutors \cup {OtherTutor} :
        (is_admin(u) \/ is_staff(u)) =>
            LET r == assign_gig(gigs, sessions, u, g, t)
            IN IF gigs[g].tutor = NoTutor
               THEN /\ r.code = "ok"
                    /\ r.gigs = [gigs EXCEPT ![g].tutor = t]
                    /\ r.sessions = sessions
               ELSE Rejected(r)

\* C28: unassign succeeds only when the gig has a tutor and is not active,
\* and then clears the tutor and changes neither the status nor the hour
\* fields; otherwise it is rejected and the gig is unchanged.
C28_UnassignOnlyInactive ==
    \A u \in Users, g \in ExistingGigs :
        LET r == unassign_gig(gigs, sessions, u, g)
        IN IF /\ is_admin(u) \/ is_staff(u)
              /\ gigs[g].tutor # NoTutor
              /\ gigs[g].status # "active"
           THEN /\ r.code = "ok"
                /\ r.gigs = [gigs EXCEPT ![g].tutor = NoTutor]
                /\ r.sessions = sessions
           ELSE Rejected(r)

\* C28 witness: a gig on hold with a tutor is unassigned and stays on hold
\* with its hours, and unassigning an active gig is refused
C28_Witness ==
    \E g \in ExistingGigs, g2 \in ExistingGigs :
        /\ gigs[g].status = "on_hold" /\ gigs[g].tutor # NoTutor
        /\ LET r == unassign_gig(gigs, sessions, "admin", g)
           IN /\ r.code = "ok"
              /\ r.gigs[g].tutor = NoTutor
              /\ r.gigs[g].status = "on_hold"
              /\ r.gigs[g].total_hours_remaining
                     = gigs[g].total_hours_remaining
        /\ gigs[g2].status = "active" /\ gigs[g2].tutor # NoTutor
        /\ unassign_gig(gigs, sessions, "admin", g2).code = "conflict"

\* C29: the status of the gig is not a precondition of verification: an
\* unverified session that the verify operation accepts stays acceptable
\* when its gig is completed, put on hold or cancelled, so it can still be
\* verified afterwards.
C29_StillVerifiableAfterStatusChange ==
    [][\A s \in SessionIds :
        LET g == sessions[s].gig
        IN (/\ SessionExists(sessions, s) /\ ~sessions[s].is_verified
            /\ sessions' = sessions
            /\ verify_session(gigs, sessions, "admin", g, s, TRUE).code
                   = "ok"
            /\ gigs'[g].status # gigs[g].status
            /\ gigs'[g].status \in {"completed", "on_hold", "cancelled"})
           => verify_session(gigs', sessions', "admin", g, s, TRUE).code
                  = "ok"]_vars

\* C30: validateAccess succeeds only if the meeting code exists, the PIN
\* matches and the session is neither completed nor cancelled; and the
\* write of a join never lands on a session that is completed or cancelled
\* and never changes the status of one, also when a cancel or a complete
\* request ran between the check of the join and its write.
C30_JoinNeverOnClosedSession ==
    /\ [](\A i \in OnlineIds, pin_ok \in BOOLEAN :
             online_session_validate(online, i, pin_ok, "tutor", 1).code
                 = "ok" =>
                 /\ OnlineExists(online, i) /\ pin_ok
                 /\ online[i].status \notin {"completed", "cancelled"})
    /\ [][\A p \in Procs :
            (conc.join[p].pc = "checked" /\ conc'.join[p].pc = "done") =>
                LET i == conc.join[p].sid
                IN /\ online[i].status \notin {"completed", "cancelled"}
                   /\ online[i].status \in {"completed", "cancelled"}
                        => online'[i].status = online[i].status]_vars

\* the row a join of participant_type at the instant now leaves of the
\* row o, as the join is described: the participant's flag is set, its
\* stamp and actual_start are written only where they are empty, a
\* scheduled session becomes active, nothing else changes
JoinedOnce(o, participant_type, now) ==
    [o EXCEPT
       !.tutor_joined = IF participant_type = "tutor" THEN TRUE ELSE @,
       !.client_joined = IF participant_type = "client" THEN TRUE ELSE @,
       !.tutor_joined_at = IF participant_type = "tutor" /\ @ = NoStamp
                           THEN now ELSE @,
       !.client_joined_at = IF participant_type = "client" /\ @ = NoStamp
                            THEN now ELSE @,
       !.status = IF @ = "scheduled" THEN "active" ELSE @,
       !.actual_start = IF o.status = "scheduled" /\ @ = NoStamp
                        THEN now ELSE @]

\* C31: a successful join marks the named role as joined; the role's stamp
\* and actual_start are set by the first join only and no later join
\* changes them, the other role's flag and stamp are untouched, and the
\* first join of a scheduled session makes it active.
C31_JoinMarksOnce ==
    /\ [](\A i \in OnlineIds, participant_type \in ParticipantTypes,
             now \in Times :
             LET r == online_session_validate(online, i, TRUE,
                                              participant_type, now)
             IN r.code = "ok" =>
                    r.online = [online EXCEPT ![i] =
                                   JoinedOnce(@, participant_type, now)])
    /\ [](\A i \in OnlineIds :
             (online[i].tutor_joined \/ online[i].client_joined) =>
                 /\ online[i].actual_start # NoStamp
                 /\ online[i].status # "scheduled"
                 /\ online[i].tutor_joined
                        <=> online[i].tutor_joined_at # NoStamp
                 /\ online[i].client_joined
                        <=> online[i].client_joined_at # NoStamp)
    /\ [][\A i \in OnlineIds :
            /\ online[i].tutor_joined_at # NoStamp =>
                   online'[i].tutor_joined_at = online[i].tutor_joined_at
            /\ online[i].client_joined_at # NoStamp =>
                   online'[i].client_joined_at = online[i].client_joined_at
            /\ online[i].actual_start # NoStamp =>
                   online'[i].actual_start = online[i].actual_start]_vars

\* C31 witness: the tutor joined at the first instant and the client has
\* not; a join of the client at the second instant is accepted, stamps the
\* client and leaves the tutor's stamp and actual_start at the first
C31_Witness ==
    \E i \in OnlineIds :
        /\ online[i].status = "active"
        /\ online[i].tutor_joined /\ online[i].tutor_joined_at = 1
        /\ online[i].actual_start = 1
        /\ ~online[i].client_joined
        /\ LET r == online_session_validate(online, i, TRUE, "client", 2)
               again == online_session_validate(online, i, TRUE, "tutor", 2)
           IN /\ r.code = "ok"
              /\ r.online[i].client_joined_at = 2
              /\ r.online[i].tutor_joined_at = 1
              /\ r.online[i].actual_start = 1
              /\ again.code = "ok"
              /\ again.online[i].tutor_joined_at = 1

\* the end a session's next extension counts from
ExtendBase(o) == IF o.extended_end # NoTime THEN o.extended_end
                 ELSE o.scheduled_end

\* C32: extend is accepted only for an active session and only for a
\* number of minutes that is a multiple of 5 between 5 and 120; an accepted
\* extend sets extended_end to extended_end, or scheduled_end while
\* extended_end is empty, plus the minutes, so that extended_end is
\* scheduled_end plus the minutes of all accepted extends; a rejected
\* extend changes nothing.
C32_ExtendAddsMinutes ==
    /\ [](\A i \in OnlineIds, additional \in ExtendInputs :
             OnlineExists(online, i) =>
                 LET r == online_session_extend(online, i, additional)
                 IN IF /\ online[i].status = "active"
                       /\ additional >= 5 /\ additional <= 120
                       /\ additional % 5 = 0
                    THEN /\ r.code = "ok"
                         /\ r.online =
                              [online EXCEPT ![i].extended_end =
                                  ExtendBase(online[i])
                                  + additional \div SlotMinutes]
                    ELSE r.code # "ok" /\ r.online = online)
    /\ [][\A i \in OnlineIds :
            online'[i].extended_end # online[i].extended_end =>
                /\ online[i].status = "active"
                /\ online'[i].scheduled_end = online[i].scheduled_end
                /\ \E additional \in ExtendInputs :
                       /\ additional >= 5 /\ additional <= 120
                       /\ additional % 5 = 0
                       /\ online'[i].extended_end =
                              ExtendBase(online[i])
                              + additional \div SlotMinutes]_vars

\* C32 witness: an active session was extended by half an hour; a second
\* extension by half an hour is accepted and ends a whole hour after
\* scheduled_end, and one by 6 minutes is rejected
C32_Witness ==
    \E i \in OnlineIds :
        /\ online[i].status = "active"
        /\ online[i].extended_end = online[i].scheduled_end + 1
        /\ LET r == online_session_extend(online, i, SlotMinutes)
           IN /\ r.code = "ok"
              /\ r.online[i].extended_end = online[i].scheduled_end + 2
        /\ online_session_extend(online, i, MinAdditional + 1).code
               = "invalid"

\* C33: every stored online session has a meeting_code that no other
\* stored session has, also when two sessions are created concurrently;
\* the code a request inserts was drawn as one no stored session used.
C33_MeetingCodesDistinct ==
    /\ \A i \in OnlineIds, j \in OnlineIds :
          (i # j /\ OnlineExists(online, i) /\ OnlineExists(online, j)) =>
              online[i].meeting_code # online[j].meeting_code
    /\ \A i \in OnlineIds :
          OnlineExists(online, i) => online[i].meeting_code \in MeetingCodes

\* C33 witness: both requests drew the same code while neither was stored;
\* one is stored with it and the other's insert was refused
C33_Witness ==
    \E p \in Procs, q \in Procs, i \in OnlineIds :
        /\ p # q
        /\ conc.create[p].pc = "done" /\ conc.create[p].code = "ok"
        /\ conc.create[q].pc = "done" /\ conc.create[q].code = "error"
        /\ conc.create[p].row.meeting_code = conc.create[q].row.meeting_code
        /\ online[i].meeting_code = conc.create[p].row.meeting_code
        /\ \A j \in OnlineIds : j # i => ~OnlineExists(online, j)

\* C34: for every gig, hours_completed is total_hours minus
\* total_hours_remaining, also when total_hours_remaining is 0, and the
\* completion percentage is hours_completed / total_hours * 100 rounded to
\* two places (here in hundredths of a percent), 0 when total_hours is 0.
C34_CompletedIsTotalMinusRemaining ==
    \A g \in GigIds :
        GigExists(gigs, g) =>
            /\ hours_completed(gigs[g]) =
                   gigs[g].total_hours - gigs[g].total_hours_remaining
            /\ completion_percentage(gigs[g]) =
                   IF gigs[g].total_hours = 0 THEN 0
                   ELSE (2 * 10000 * (gigs[g].total_hours
                                      - gigs[g].total_hours_remaining)
                         + gigs[g].total_hours) \div (2 * gigs[g].total_hours)

\* C35: in every reachable state a session that is not verified has
\* verified_by and verified_at both null, and a verified session has
\* verified_at set.
C35_VerificationFieldsAgree ==
    \A s \in SessionIds :
        SessionExists(sessions, s) =>
            IF sessions[s].is_verified
            THEN sessions[s].verified_at # 0
            ELSE sessions[s].verified_by = NoUser /\ sessions[s].verified_at = 0

\* C35 witness: a verified session carrying its verifier and instant next
\* to a session that is not verified
C35_Witness ==
    \E s \in SessionIds, r \in SessionIds :
        /\ SessionExists(sessions, s) /\ SessionExists(sessions, r)
        /\ sessions[s].is_verified /\ sessions[s].verified_by = "admin"
        /\ sessions[s].verified_at # 0
        /\ ~sessions[r].is_verified /\ sessions[r].verified_by = NoUser

\* C36: in every reachable state, after any sequence of assign, unassign,
\* start, hold, resume, complete and cancel requests through the endpoints
\* and the admin bulk actions, a gig whose status is active has a tutor.
C36_ActiveGigHasTutor ==
    \A g \in GigIds :
        gigs[g].status = "active" => gigs[g].tutor # NoTutor

\* C37: in every reachable state a gig whose status is completed has
\* total_hours_remaining = 0; no session unverify, session delete, session
\* edit or total_hours update made after the completion changes that.
C37_CompletedGigHasNoHoursLeft ==
    \A g \in GigIds :
        gigs[g].status = "completed" => gigs[g].total_hours_remaining = 0

\* the hours remaining of every gig, as a request's outcome leaves them
LedgerAfter(r) == [g \in GigIds |-> r.gigs[g].total_hours_remaining]

\* C38: no request made by a principal who is only a tutor changes any
\* gig's total_hours_remaining: a tutor's session creation, session edit,
\* session delete, verification, adjustment or gig update leaves the hours
\* of every gig as they were.
C38_TutorNeverChangesLedger ==
    \A u \in Users :
        (is_tutor(u) /\ ~(is_admin(u) \/ is_staff(u))) =>
            \A g \in ExistingGigs :
                /\ \A h \in HoursInputs :
                      FreeSessionIds(sessions) # {} =>
                          LedgerAfter(gig_sessions_list_create(
                              gigs, sessions, u, g, h))
                              = LedgerAfter([gigs |-> gigs])
                /\ \A s \in SessionIds :
                      OwnSession(g, s) =>
                          /\ \A h \in HoursInputs, g2 \in ExistingGigs :
                                LedgerAfter(gig_session_detail_put(
                                    gigs, sessions, u, g, s, h, g2))
                                    = LedgerAfter([gigs |-> gigs])
                          /\ LedgerAfter(gig_session_detail_delete(
                                 gigs, sessions, u, g, s))
                                 = LedgerAfter([gigs |-> gigs])
                          /\ \A verified \in BOOLEAN :
                                LedgerAfter(verify_session(
                                    gigs, sessions, u, g, s, verified))
                                    = LedgerAfter([gigs |-> gigs])
                /\ \A a \in AdjustInputs :
                      LedgerAfter(adjust_gig_hours(gigs, sessions, u, g, a))
                          = LedgerAfter([gigs |-> gigs])
                /\ \A nt \in TotalInputs :
                      LedgerAfter(gig_detail_put(gigs, sessions, u, g, nt))
                          = LedgerAfter([gigs |-> gigs])

\* C39: when two schedule requests for the same tutor with overlapping
\* windows run concurrently, the conflict check and the insert of each
\* interleaved with the other's, at most one of them is accepted.
C39_OverlappingRequestsNotBothAccepted ==
    \A p \in Procs, q \in Procs :
        (/\ p # q
         /\ conc.create[p].pc = "done" /\ conc.create[p].code = "ok"
         /\ conc.create[q].pc = "done" /\ conc.create[q].code = "ok"
         /\ conc.create[p].row.tutor = conc.create[q].row.tutor)
        => ~(/\ conc.create[p].row.scheduled_start
                    < conc.create[q].row.scheduled_end
             /\ conc.create[q].row.scheduled_start
                    < conc.create[p].row.scheduled_end)

\* C40: after any sequence of schedule and extend requests no two
\* scheduled or active sessions of the same tutor overlap in their
\* effective windows, a window running from scheduled_start to extended_end
\* if set and to scheduled_end otherwise.
C40_EffectiveWindowsDisjoint ==
    \A i \in OnlineIds, j \in OnlineIds :
        (/\ i # j
         /\ OnlineExists(online, i) /\ OnlineExists(online, j)
         /\ online[i].status \in {"scheduled", "active"}
         /\ online[j].status \in {"scheduled", "active"}
         /\ online[i].tutor = online[j].tutor)
        => ~(/\ online[i].scheduled_start < LastEnd(online[j])
             /\ online[j].scheduled_start < LastEnd(online[i]))

====
